---- MODULE Spec2Model ----
(***************************************************************************)
(* A model of the peal evolutionary-algorithm framework: the ES signature  *)
(* parser (peal/core/strategy.py, peal/core/process.py), the nested        *)
(* evolutionary loop (peal/core/environment.py), the operator base class,  *)
(* the iteration types, Best selection, Crossover, the Individual dirty    *)
(* flag and the copy semantics of Population and Community.                *)
(*                                                                         *)
(* Every component has its own variables, initial condition and actions;   *)
(* a component's specification leaves the other components' variables      *)
(* untouched.                                                              *)
(***************************************************************************)
EXTENDS Integers, Sequences, FiniteSets, TLC

VARIABLES
    \* ---- signature parsing (Strategy.from_string, StrategyProcess) ----
    signature,               \* the string handed to the parser, a sequence of characters
    population_generations,  \* the int argument of from_string / StrategyProcess.generations
    parts,                   \* how the input string was written (input-side record)
    strategy,                \* result of Strategy.from_string
    process,                 \* result of constructing a StrategyProcess
    \* ---- Environment.execute ----
    env_pc,                  \* position in execute: breed, evolve, inner, done, raised
    community_strategy,      \* [init_size, generations] of the community strategy
    population_strategy,     \* [init_size, generations] of the population strategy
    populations,             \* the Community: a sequence of populations
    generation,              \* [outer, inner, i]: loop counters of execute
    hooks,                   \* the callback hooks invoked so far, in order
    \* ---- Operator.process ----
    op,                      \* the operator and its argument: sizes, iteration batch size, _process, input
    op_pc,                   \* position in process: ready, iterating, returned, ValueError
    op_i,                    \* index of the next batch's first element
    new_population,          \* the container process_all has collected so far
    op_batches,              \* sizes [taken, returned] of the _process calls made so far
    \* ---- Individual (peal/population/individual.py) ----
    individual,              \* the individual: _genes, dtype, _fitness, fitted, _hidden_genes
    ind_last,                \* the most recent of: new, genes (read or write), fitness (assignment)
    ind_raised,              \* what the most recent operation raised, or None
    ind_steps,               \* number of operations made on the individual
    \* ---- Best selection ----
    best,                    \* the operator: version, in_size, out_size
    best_population,         \* the population handed to process
    best_pc,                 \* position: ready, returned, ValueError
    best_result,             \* the population process returned
    \* ---- Crossover ----
    cross,                   \* the operator: version, npoints, probability
    cross_parents,           \* the genomes of the two parents
    cross_pc,                \* position: ready, returned, ValueError
    cross_points,            \* the boundaries the exchange used, or None
    cross_offspring,         \* the genomes of the two offspring
    cross_draw,              \* the uniform draw of the probability test, in tenths, or None
    \* ---- NRandomBatchesIteration ----
    iter,                    \* the iteration type: version, batch_size, total
    iter_container,          \* the container iterated over
    iter_pc,                 \* position: iterating, exhausted, ValueError
    iter_count,              \* number of batches yielded so far
    iter_batch,              \* the batch yielded last: its indices and its elements
    iter_seen,               \* the elements of the batches yielded before the last one
    \* ---- copy and deepcopy of Population and Community ----
    heap,                    \* the objects: arrays, individuals, populations, communities
    copy_level,              \* class of the container p: Population or Community
    copy_kind,               \* how q was made: none (not yet), copy, deepcopy
    copy_q,                  \* the container q, 0 before it is made; p is container 1
    copy_original,           \* the heap as it was when p was built
    copy_steps,              \* number of operations made on q and its elements
    \* ---- StrategyProcess.start ----
    sp,                      \* the StrategyProcess: the parameters bound from its signature
    sp_pc,                   \* position in start: breed, mix, evolve, select, returned, or the error raised
    sp_populations,          \* the list `populations`
    sp_offspring,            \* the list `offspring_populations`
    sp_generation,           \* [outer, inner, i]: the loop counters of start
    sp_hooks,                \* the hooks invoked so far, in order
    sp_handed,               \* the population handed to the hook invoked last
    \* ---- BestWorst callback ----
    bw,                      \* the tracker: its populations best and worst
    bw_pc,                   \* new (constructed), started (on_start was called), ValueError
    bw_calls,                \* the populations handed to on_generation_end since the last on_start
    bw_steps,                \* number of hooks called on the tracker
    \* ---- SynchronousProcess.start ----
    syn,                     \* the SynchronousProcess: init_size, generations
    syn_pc,                  \* position in start: start, generations, returned
    syn_population,          \* the variable `population`
    syn_generation,          \* rounds of the loop over the generations made so far
    syn_hooks,               \* the hooks invoked so far, in order
    syn_handed,              \* the population handed to the hook invoked last
    \* ---- Fitness.evaluate ----
    fit_type,                \* type of the object evaluate is called with
    fit_objects,             \* the object: an individual, a list of individuals, a list of populations
    fit_before,              \* the object as it was before the call
    fit_pc,                  \* ready, returned, TypeError
    \* ---- StraightIteration ----
    str_size,                \* the batch_size of the StraightIteration
    str_container,           \* the container iterated over
    str_pc,                  \* position: iterating, exhausted, ValueError
    str_i,                   \* the loop variable i
    str_batches,             \* the batches yielded so far
    \* ---- EquiMix ----
    eq,                      \* the EquiMix: in_size, out_size, group_size
    eq_container,            \* the community handed to _process_community
    eq_result,               \* the community _process_community returns
    eq_pc,                   \* ready, returned
    \* ---- Crowded integration ----
    crowd,                   \* the operator: version, cf (the crowding factor)
    crowd_parents,           \* the genomes of the parent population
    crowd_offspring,         \* the genomes of the offspring population
    crowd_merged,            \* the population `merged`
    crowd_done,              \* number of offspring the loop has integrated
    crowd_compare,           \* the indices sampled for the last offspring
    crowd_best,              \* the index `best` found for the last offspring
    crowd_pc,                \* ready, merging, returned, ValueError
    \* ---- FirstThingsFirst and OffspringFirst integration ----
    ftf,                     \* the operator: version, size
    ftf_first,               \* the first population of the pair
    ftf_second,              \* the second population of the pair
    ftf_result,              \* the population returned
    ftf_pc,                  \* ready, returned, RuntimeError
    \* ---- Tournament selection ----
    tourn,                   \* the operator: version, size
    tourn_population,        \* the fitness values of the population processed
    tourn_result,            \* the population built by process
    tourn_batch,             \* the indices of the last batch drawn
    tourn_pc,                \* selecting, returned, ValueError
    \* ---- Mutation step sizes ----
    step,                    \* the version of the mutation
    step_arrays,             \* the arrays hidden_genes: the exponent j of the step size alpha^j each holds
    step_refs,               \* for each individual the array its hidden_genes refers to
    step_depth,              \* for each individual the number of applications on its line of descent
    step_last,               \* the last application: its parent and its child
    step_before,             \* the step sizes of all individuals before the last application
    \* ---- Fitness and genes of individuals ----
    life,                    \* the individuals of the population
    life_before,             \* the individuals before the last operation
    life_last,               \* the last operation: op, the individual it was on, the type of the value assigned, raised
    life_steps,              \* number of operations made
    \* ---- integrate of Population and Community ----
    integ,                   \* the call: the kind of container, the kind of argument (single, iterable, self)
    integ_container,         \* the elements of the container
    integ_items,             \* the elements of the argument, when it is not the container itself
    integ_before,            \* the elements of the container at the call
    integ_iter_id,           \* _iter_id of the container iterated, or the index reached in the list
    integ_pc                 \* ready, iterating, returned, TypeError

parseVars == <<signature, population_generations, parts, strategy, process>>

envVars == <<env_pc, community_strategy, population_strategy, populations,
             generation, hooks>>

opVars == <<op, op_pc, op_i, new_population, op_batches>>

indVars == <<individual, ind_last, ind_raised, ind_steps>>

bestVars == <<best, best_population, best_pc, best_result>>

crossVars == <<cross, cross_parents, cross_pc, cross_points,
               cross_offspring, cross_draw>>

iterVars == <<iter, iter_container, iter_pc, iter_count, iter_batch,
              iter_seen>>

copyVars == <<heap, copy_level, copy_kind, copy_q, copy_original,
              copy_steps>>

spVars == <<sp, sp_pc, sp_populations, sp_offspring, sp_generation,
            sp_hooks, sp_handed>>

bwVars == <<bw, bw_pc, bw_calls, bw_steps>>

synVars == <<syn, syn_pc, syn_population, syn_generation, syn_hooks,
             syn_handed>>

fitVars == <<fit_type, fit_objects, fit_before, fit_pc>>

strVars == <<str_size, str_container, str_pc, str_i, str_batches>>

eqVars == <<eq, eq_container, eq_result, eq_pc>>

crowdVars == <<crowd, crowd_parents, crowd_offspring, crowd_merged,
               crowd_done, crowd_compare, crowd_best, crowd_pc>>

ftfVars == <<ftf, ftf_first, ftf_second, ftf_result, ftf_pc>>

tournVars == <<tourn, tourn_population, tourn_result, tourn_batch,
               tourn_pc>>

stepVars == <<step, step_arrays, step_refs, step_depth, step_last,
              step_before>>

lifeVars == <<life, life_before, life_last, life_steps>>

integVars == <<integ, integ_container, integ_items, integ_before,
               integ_iter_id, integ_pc>>

vars == <<parseVars, envVars, opVars, indVars, bestVars, crossVars,
          iterVars, copyVars, spVars, bwVars, synVars, fitVars, strVars,
          eqVars, crowdVars, ftfVars, tournVars, stepVars, lifeVars,
          integVars>>

\* the variables a component leaves alone
notParse == <<envVars, opVars, indVars, bestVars, crossVars, iterVars,
              copyVars, spVars, bwVars, synVars, fitVars, strVars, eqVars,
              crowdVars, ftfVars, tournVars, stepVars, lifeVars, integVars>>

notEnv == <<parseVars, opVars, indVars, bestVars, crossVars, iterVars,
            copyVars, spVars, bwVars, synVars, fitVars, strVars, eqVars,
            crowdVars, ftfVars, tournVars, stepVars, lifeVars, integVars>>

notOp == <<parseVars, envVars, indVars, bestVars, crossVars, iterVars,
           copyVars, spVars, bwVars, synVars, fitVars, strVars, eqVars,
           crowdVars, ftfVars, tournVars, stepVars, lifeVars, integVars>>

notInd == <<parseVars, envVars, opVars, bestVars, crossVars, iterVars,
            copyVars, spVars, bwVars, synVars, fitVars, strVars, eqVars,
            crowdVars, ftfVars, tournVars, stepVars, lifeVars, integVars>>

notBest == <<parseVars, envVars, opVars, indVars, crossVars, iterVars,
             copyVars, spVars, bwVars, synVars, fitVars, strVars, eqVars,
             crowdVars, ftfVars, tournVars, stepVars, lifeVars, integVars>>

notCross == <<parseVars, envVars, opVars, indVars, bestVars, iterVars,
              copyVars, spVars, bwVars, synVars, fitVars, strVars, eqVars,
              crowdVars, ftfVars, tournVars, stepVars, lifeVars, integVars>>

notIter == <<parseVars, envVars, opVars, indVars, bestVars, crossVars,
             copyVars, spVars, bwVars, synVars, fitVars, strVars, eqVars,
             crowdVars, ftfVars, tournVars, stepVars, lifeVars, integVars>>

notCopy == <<parseVars, envVars, opVars, indVars, bestVars, crossVars,
             iterVars, spVars, bwVars, synVars, fitVars, strVars, eqVars,
             crowdVars, ftfVars, tournVars, stepVars, lifeVars, integVars>>

notSp == <<parseVars, envVars, opVars, indVars, bestVars, crossVars,
           iterVars, copyVars, bwVars, synVars, fitVars, strVars, eqVars,
           crowdVars, ftfVars, tournVars, stepVars, lifeVars, integVars>>

notBw == <<parseVars, envVars, opVars, indVars, bestVars, crossVars,
           iterVars, copyVars, spVars, synVars, fitVars, strVars, eqVars,
           crowdVars, ftfVars, tournVars, stepVars, lifeVars, integVars>>

notSyn == <<parseVars, envVars, opVars, indVars, bestVars, crossVars,
            iterVars, copyVars, spVars, bwVars, fitVars, strVars, eqVars,
            crowdVars, ftfVars, tournVars, stepVars, lifeVars, integVars>>

notFit == <<parseVars, envVars, opVars, indVars, bestVars, crossVars,
            iterVars, copyVars, spVars, bwVars, synVars, strVars, eqVars,
            crowdVars, ftfVars, tournVars, stepVars, lifeVars, integVars>>

notStr == <<parseVars, envVars, opVars, indVars, bestVars, crossVars,
            iterVars, copyVars, spVars, bwVars, synVars, fitVars, eqVars,
            crowdVars, ftfVars, tournVars, stepVars, lifeVars, integVars>>

notEq == <<parseVars, envVars, opVars, indVars, bestVars, crossVars,
           iterVars, copyVars, spVars, bwVars, synVars, fitVars, strVars,
           crowdVars, ftfVars, tournVars, stepVars, lifeVars, integVars>>

notCrowd == <<parseVars, envVars, opVars, indVars, bestVars, crossVars,
              iterVars, copyVars, spVars, bwVars, synVars, fitVars,
              strVars, eqVars, ftfVars, tournVars, stepVars, lifeVars,
              integVars>>

notFtf == <<parseVars, envVars, opVars, indVars, bestVars, crossVars,
            iterVars, copyVars, spVars, bwVars, synVars, fitVars, strVars,
            eqVars, crowdVars, tournVars, stepVars, lifeVars, integVars>>

notTourn == <<parseVars, envVars, opVars, indVars, bestVars, crossVars,
              iterVars, copyVars, spVars, bwVars, synVars, fitVars,
              strVars, eqVars, crowdVars, ftfVars, stepVars, lifeVars,
              integVars>>

notStep == <<parseVars, envVars, opVars, indVars, bestVars, crossVars,
             iterVars, copyVars, spVars, bwVars, synVars, fitVars, strVars,
             eqVars, crowdVars, ftfVars, tournVars, lifeVars, integVars>>

notLife == <<parseVars, envVars, opVars, indVars, bestVars, crossVars,
             iterVars, copyVars, spVars, bwVars, synVars, fitVars, strVars,
             eqVars, crowdVars, ftfVars, tournVars, stepVars, integVars>>

notInteg == <<parseVars, envVars, opVars, indVars, bestVars, crossVars,
              iterVars, copyVars, spVars, bwVars, synVars, fitVars,
              strVars, eqVars, crowdVars, ftfVars, tournVars, stepVars,
              lifeVars>>

(***************************************************************************)
(* Bounds of the model.                                                    *)
(***************************************************************************)
MaxRawLen == 5          \* longest arbitrary input string
MaxGenerations == 2     \* largest population_generations argument
MaxInitSize == 2        \* largest init_size of a strategy handed to execute
MaxRunGenerations == 2  \* largest generations of a strategy handed to execute
MaxGene == 1            \* genes are drawn from 0..MaxGene
MaxOpSize == 2          \* largest in_size, out_size and batch size of an operator
MaxContainer == 3       \* largest container handed to an operator
MaxShape == 2           \* longest gene array of the flagged individual
MaxIndSteps == 4        \* operations made on one individual
MaxBest == 3            \* largest population handed to Best
MaxFitness == 2         \* fitness values are drawn from 0..MaxFitness
MaxLength == 4          \* longest genome handed to Crossover
MaxPoints == 2          \* largest npoints of a Crossover
MaxTotal == 2           \* largest total of an NRandomBatchesIteration
MaxCopySize == 2        \* largest container that is copied
MaxCopySteps == 2       \* operations made on the copy
MaxStartGenerations == 2 \* most outer generations of a StrategyProcess
MaxTracked == 2          \* largest population handed to a BestWorst
MaxTrackerCalls == 3     \* hooks called on one BestWorst
MaxCrowdParents == 2     \* largest parent population and crowding factor of a crowded integration
MaxCrowdOffspring == 2   \* largest offspring population of a crowded integration
MaxMergeSize == 2        \* largest population given to a FirstThingsFirst integration
MaxTournament == 3       \* largest population given to a tournament selection
MaxStepIndividuals == 4  \* individuals (initial and offspring) of a run of mutations
MaxLifeIndividuals == 2  \* individuals of the population whose fitness is followed
MaxLifeSteps == 3        \* operations on these individuals
MaxIntegrate == 2        \* largest container and largest list given to integrate
MaxIntegrateLen == 5     \* elements a container is followed up to while it integrates itself

(***************************************************************************)
(* Characters and integers.  A string is a sequence of one-character       *)
(* strings.  None stands for a regex group that did not take part in the   *)
(* match: no group of SIGNATURE_RE can match the empty string, so the      *)
(* empty sequence is free to stand for it.                                 *)
(***************************************************************************)
Digits == <<"0", "1", "2", "3", "4", "5", "6", "7", "8", "9">>

IsDigit(c) == \E d \in 1..10 : Digits[d] = c

DigitVal(c) == (CHOOSE d \in 1..10 : Digits[d] = c) - 1

None == <<>>

\* the character at position i, "" past either end of the string
At(s, i) == IF i \in 1..Len(s) THEN s[i] ELSE ""

\* s[i..j-1]
Slice(s, i, j) == [k \in 1..(j - i) |-> s[i + k - 1]]

\* int(s) for a string of decimal digits
RECURSIVE int(_)
int(s) ==
    IF Len(s) = 0 THEN 0
    ELSE 10 * int(SubSeq(s, 1, Len(s) - 1)) + DigitVal(s[Len(s)])

\* str(n) for n >= 0
RECURSIVE str(_)
str(n) ==
    IF n < 10 THEN <<Digits[n + 1]>>
    ELSE Append(str(n \div 10), Digits[(n % 10) + 1])

(***************************************************************************)
(* SIGNATURE_RE =                                                          *)
(*   (?:(\d+)(/\d+)?(\+|,)(\d+))?\((\d+)(/\d+)?(\+|,)(\d+)\)(\^\d+)?       *)
(* Every \d+ is followed by a literal that is not a digit (or by the end   *)
(* of the pattern), so the greedy run of digits is the only one that can   *)
(* lead to a match and the matcher below needs no backtracking.            *)
(***************************************************************************)
\* the position after the longest run of digits that starts at i
DigitsEnd(s, i) ==
    CHOOSE j \in i..(Len(s) + 1) :
        /\ \A k \in i..(j - 1) : IsDigit(s[k])
        /\ ~IsDigit(At(s, j))

NoMatch == [ok |-> FALSE, end |-> 0, groups |-> <<>>]

\* (/\d+)? after the first number, which ends before j1: the position of
\* the separator that has to follow
AfterRho(s, j1) ==
    IF At(s, j1) = "/" /\ DigitsEnd(s, j1 + 1) > j1 + 1
    THEN DigitsEnd(s, j1 + 1) ELSE j1

\* (\+|,)(\d+) at position k, after the number s[i..j1-1] and the optional
\* group s[j1..k-1]
CountsFrom(s, i, j1, k) ==
    IF j1 > i /\ At(s, k) \in {"+", ","} /\ DigitsEnd(s, k + 1) > k + 1
    THEN [ok |-> TRUE, end |-> DigitsEnd(s, k + 1),
          groups |-> << Slice(s, i, j1),
                        IF k > j1 THEN Slice(s, j1, k) ELSE None,
                        <<s[k]>>,
                        Slice(s, k + 1, DigitsEnd(s, k + 1)) >>]
    ELSE NoMatch

MatchCountsAt(s, i, j1) == CountsFrom(s, i, j1, AfterRho(s, j1))

\* (\d+)(/\d+)?(\+|,)(\d+) at position i: the four groups and the end
MatchCounts(s, i) == MatchCountsAt(s, i, DigitsEnd(s, i))

\* (\^\d+)? at position e: the position after it
GammaEnd(s, e) ==
    IF At(s, e) = "^" /\ DigitsEnd(s, e + 1) > e + 1
    THEN DigitsEnd(s, e + 1) ELSE e

\* \)(\^\d+)? after the counts c
Close(s, c) ==
    IF c.ok /\ At(s, c.end) = ")"
    THEN [ok |-> TRUE, end |-> GammaEnd(s, c.end + 1),
          groups |-> c.groups \o
              << IF GammaEnd(s, c.end + 1) > c.end + 1
                 THEN Slice(s, c.end + 1, GammaEnd(s, c.end + 1))
                 ELSE None >>]
    ELSE NoMatch

\* \((\d+)(/\d+)?(\+|,)(\d+)\)(\^\d+)? at position i
MatchIndividuals(s, i) ==
    IF At(s, i) = "(" THEN Close(s, MatchCounts(s, i + 1)) ELSE NoMatch

Join(p, m) ==
    IF m.ok
    THEN [ok |-> TRUE, end |-> m.end, groups |-> p.groups \o m.groups]
    ELSE NoMatch

\* the individual part after the population part p
MatchAfter(s, p) ==
    IF p.ok THEN Join(p, MatchIndividuals(s, p.end)) ELSE NoMatch

\* the optional group (?:...)? is tried first, then skipped
Alternatives(withPop, without) ==
    IF withPop.ok THEN withPop
    ELSE IF without.ok
    THEN [ok |-> TRUE, end |-> without.end,
          groups |-> <<None, None, None, None>> \o without.groups]
    ELSE NoMatch

\* the whole pattern anchored at position i
MatchAt(s, i) ==
    Alternatives(MatchAfter(s, MatchCounts(s, i)), MatchIndividuals(s, i))

\* re.search(SIGNATURE_RE, string): the leftmost match, or no match
re_search(s) ==
    IF \E i \in 1..Len(s) : MatchAt(s, i).ok
    THEN MatchAt(s, CHOOSE i \in 1..Len(s) :
                        /\ MatchAt(s, i).ok
                        /\ \A k \in 1..(i - 1) : ~MatchAt(s, k).ok)
    ELSE NoMatch

(***************************************************************************)
(* Strategy.from_string and StrategyProcess._initialize_parameters: the    *)
(* binding of the nine groups.  group(matches, k) is Python's matches[k].  *)
(***************************************************************************)
group(matches, k) == matches[k + 1]

ind_parent_selection(matches) == group(matches, 6) = <<"+">>

pop_parent_selection(matches) == group(matches, 2) = <<"+">>

\* mu: number of parents
ind_mu(matches) == int(group(matches, 4))

pop_mu(matches) ==
    IF group(matches, 0) = None THEN 1 ELSE int(group(matches, 0))

\* lambda: number of offspring
ind_lambda(matches) == int(group(matches, 7))

\* a parser that binds the population offspring count to the first group
pop_lambda_mut(matches) ==
    IF group(matches, 0) = None THEN 1 ELSE int(group(matches, 0))

pop_lambda(matches) ==
    IF group(matches, 3) = None THEN 1 ELSE int(group(matches, 3))

\* rho: mixin proportion number (the group without its leading "/")
ind_rho(matches) ==
    IF group(matches, 5) = None THEN 1 ELSE int(Tail(group(matches, 5)))

pop_rho(matches) ==
    IF group(matches, 1) = None THEN 1 ELSE int(Tail(group(matches, 1)))

\* gamma: cycle number for single population evolution (without "^")
ind_gamma(matches) ==
    IF group(matches, 8) = None THEN 1 ELSE int(Tail(group(matches, 8)))

\* in_size of the Best selection operator built from the signature
selection_in_size(matches) ==
    IF ind_parent_selection(matches)
    THEN ind_lambda(matches) + ind_mu(matches)
    ELSE ind_lambda(matches)

\* Best.__init__ raises ValueError when in_size < out_size
BestRaises(in_size, out_size) == in_size < out_size

\* FirstThingsFirst.__init__ raises ValueError for size < -2 or size = 0
FirstThingsFirstRaises(size) == size < -2 \/ size = 0

ValueError == [kind |-> "ValueError"]

Unset == [kind |-> "unset"]

\* the outer generation count of a mutated parser that ignores its argument
from_string_generations_mut(string, generations) == 1

\* the community generation count of the strategy from_string returns
from_string_generations(string, generations) == generations

\* the Strategy built from the groups of a match
Strategy_of(match, matches, generations) ==
    IF ~match.ok THEN ValueError
    ELSE IF BestRaises(selection_in_size(matches), ind_mu(matches))
    THEN ValueError
    ELSE IF FirstThingsFirstRaises(selection_in_size(matches))
    THEN ValueError
    ELSE [kind |-> "Strategy",
          init_individuals |-> ind_mu(matches),
          generations |-> ind_gamma(matches),
          reproduction |-> [in_size |-> ind_rho(matches),
                            batch_size |-> ind_rho(matches),
                            total |-> ind_lambda(matches)],
          selection |-> [in_size |-> selection_in_size(matches),
                         out_size |-> ind_mu(matches)],
          integration |-> [size |-> selection_in_size(matches)],
          init_populations |-> pop_mu(matches),
          population_generations |-> generations,
          select_parent_populations |-> pop_parent_selection(matches),
          population_reproduction |-> [in_size |-> pop_mu(matches),
                                       out_size |-> pop_lambda(matches),
                                       group_size |-> pop_rho(matches)],
          population_selection |->
              [in_size |-> IF pop_parent_selection(matches)
                           THEN pop_lambda(matches) + pop_mu(matches)
                           ELSE pop_lambda(matches),
               out_size |-> pop_mu(matches)]]

Strategy_from_match(match, generations) ==
    Strategy_of(match, match.groups, generations)

from_string(string, generations) ==
    Strategy_from_match(re_search(string),
                        from_string_generations(string, generations))

\* StrategyProcess._initialize_parameters on the groups of a match
initialize_parameters(match, matches, generations) ==
    IF ~match.ok THEN ValueError
    ELSE IF BestRaises(selection_in_size(matches), ind_mu(matches))
    THEN ValueError
    ELSE [kind |-> "StrategyProcess",
          generations |-> generations,
          _ind_parents_included |-> ind_parent_selection(matches),
          _pop_parents_included |-> pop_parent_selection(matches),
          _ind_mu |-> ind_mu(matches),
          _pop_mu |-> pop_mu(matches),
          _ind_lambda |-> ind_lambda(matches),
          _pop_lambda |-> pop_lambda(matches),
          _ind_rho |-> ind_rho(matches),
          _pop_rho |-> pop_rho(matches),
          _ind_gamma |-> ind_gamma(matches),
          _selection |-> [in_size |-> selection_in_size(matches),
                          out_size |-> ind_mu(matches)],
          _reproduction |-> [in_size |-> ind_rho(matches)]]

initialize_from_match(match, generations) ==
    initialize_parameters(match, match.groups, generations)

\* StrategyProcess(breeder, fitness, generations, signature): __post_init__
StrategyProcess(generations, sig) ==
    initialize_from_match(re_search(sig), generations)

(***************************************************************************)
(* The input strings.  A written signature is put together from its parts  *)
(* (numbers are written in decimal), plainly, inside other characters, or  *)
(* in the bracketed form [..]^h; a raw input is any string of at most      *)
(* MaxRawLen characters of RawAlphabet, typed character by character.      *)
(***************************************************************************)
RawAlphabet == {"(", ")", ",", "1", "x"}

\* an optional part: absent, or the number written
Absent == <<>>

Opt(S) == {Absent} \cup {<<n>> : n \in S}

Separators == {"+", ","}

Wraps == {"plain", "before", "after", "bracket", "bracket_h"}

WrittenParts ==
    [pop : BOOLEAN, a : {3}, b : Opt({1}), popsep : Separators, c : {5},
     d : {5, 2}, e : Opt({2}), indsep : Separators, f : {10, 14, 1},
     g : Opt({10}), wrap : Wraps, h : {7}]

RawParts == [wrap |-> "raw"]

WriteOpt(prefix, n) == IF n = Absent THEN <<>> ELSE <<prefix>> \o str(n[1])

\* a/b{+|,}c(d/e{+|,}f)^g
WriteCore(p) ==
    (IF p.pop
     THEN str(p.a) \o WriteOpt("/", p.b) \o <<p.popsep>> \o str(p.c)
     ELSE <<>>)
    \o <<"(">> \o str(p.d) \o WriteOpt("/", p.e) \o <<p.indsep>> \o str(p.f)
    \o <<")">> \o WriteOpt("^", p.g)

Write(p) ==
    CASE p.wrap = "plain"     -> WriteCore(p)
      [] p.wrap = "before"    -> <<"x", " ">> \o WriteCore(p)
      [] p.wrap = "after"     -> WriteCore(p) \o <<")", "y">>
      [] p.wrap = "bracket"   -> <<"[">> \o WriteCore(p) \o <<"]">>
      [] p.wrap = "bracket_h" -> <<"[">> \o WriteCore(p) \o <<"]", "^">> \o str(p.h)

(***************************************************************************)
(* A component that takes no part in a specification rests in its idle     *)
(* state.                                                                  *)
(***************************************************************************)
IdleParse ==
    /\ signature = <<>>
    /\ population_generations = 0
    /\ parts = RawParts
    /\ strategy = Unset
    /\ process = Unset

IdleEnv ==
    /\ env_pc = "idle"
    /\ community_strategy = [init_size |-> 0, generations |-> 0]
    /\ population_strategy = [init_size |-> 0, generations |-> 0]
    /\ populations = <<>>
    /\ generation = [outer |-> 0, inner |-> 0, i |-> 0]
    /\ hooks = <<>>

IdleOp ==
    /\ op = [version |-> "none"]
    /\ op_pc = "idle"
    /\ op_i = 0
    /\ new_population = <<>>
    /\ op_batches = <<>>

IdleInd ==
    /\ individual = [fitted |-> FALSE]
    /\ ind_last = "idle"
    /\ ind_raised = None
    /\ ind_steps = 0

IdleBest ==
    /\ best = [version |-> "none"]
    /\ best_population = <<>>
    /\ best_pc = "idle"
    /\ best_result = <<>>

IdleCross ==
    /\ cross = [version |-> "none"]
    /\ cross_parents = <<>>
    /\ cross_pc = "idle"
    /\ cross_points = None
    /\ cross_offspring = <<>>
    /\ cross_draw = None

IdleIter ==
    /\ iter = [version |-> "none", batch_size |-> 0, total |-> <<>>]
    /\ iter_container = <<>>
    /\ iter_pc = "idle"
    /\ iter_count = 0
    /\ iter_batch = [indices |-> <<>>, elements |-> <<>>]
    /\ iter_seen = {}

IdleCopy ==
    /\ heap = [arrays |-> <<>>]
    /\ copy_level = "none"
    /\ copy_kind = "idle"
    /\ copy_q = 0
    /\ copy_original = [arrays |-> <<>>]
    /\ copy_steps = 0

IdleSp ==
    /\ sp = [kind |-> "unset"]
    /\ sp_pc = "idle"
    /\ sp_populations = <<>>
    /\ sp_offspring = <<>>
    /\ sp_generation = [outer |-> 0, inner |-> 0, i |-> 0]
    /\ sp_hooks = <<>>
    /\ sp_handed = <<>>

IdleBw ==
    /\ bw = [best |-> <<>>, worst |-> <<>>]
    /\ bw_pc = "idle"
    /\ bw_calls = <<>>
    /\ bw_steps = 0

IdleSyn ==
    /\ syn = [init_size |-> 0, generations |-> 0]
    /\ syn_pc = "idle"
    /\ syn_population = <<>>
    /\ syn_generation = 0
    /\ syn_hooks = <<>>
    /\ syn_handed = <<>>

IdleFit ==
    /\ fit_type = "none"
    /\ fit_objects = <<>>
    /\ fit_before = <<>>
    /\ fit_pc = "idle"

IdleStr ==
    /\ str_size = 0
    /\ str_container = <<>>
    /\ str_pc = "idle"
    /\ str_i = 0
    /\ str_batches = <<>>

IdleEq ==
    /\ eq = [in_size |-> 0, out_size |-> 0, group_size |-> 0]
    /\ eq_container = <<>>
    /\ eq_result = <<>>
    /\ eq_pc = "idle"

IdleCrowd ==
    /\ crowd = [version |-> "none", cf |-> 0]
    /\ crowd_parents = <<>>
    /\ crowd_offspring = <<>>
    /\ crowd_merged = <<>>
    /\ crowd_done = 0
    /\ crowd_compare = <<>>
    /\ crowd_best = 0
    /\ crowd_pc = "idle"

IdleFtf ==
    /\ ftf = [version |-> "none", size |-> 0]
    /\ ftf_first = <<>>
    /\ ftf_second = <<>>
    /\ ftf_result = <<>>
    /\ ftf_pc = "idle"

IdleTourn ==
    /\ tourn = [version |-> "none", size |-> 0]
    /\ tourn_population = <<>>
    /\ tourn_result = <<>>
    /\ tourn_batch = <<>>
    /\ tourn_pc = "idle"

IdleStep ==
    /\ step = "none"
    /\ step_arrays = <<>>
    /\ step_refs = <<>>
    /\ step_depth = <<>>
    /\ step_last = None
    /\ step_before = <<>>

IdleLife ==
    /\ life = <<>>
    /\ life_before = <<>>
    /\ life_last = [op |-> "none", on |-> 0, type |-> "none", raised |-> FALSE]
    /\ life_steps = 0

IdleInteg ==
    /\ integ = [container |-> "none", items |-> "none"]
    /\ integ_container = <<>>
    /\ integ_items = <<>>
    /\ integ_before = <<>>
    /\ integ_iter_id = -1
    /\ integ_pc = "idle"

\* every component but c is idle
IdleBut(c) ==
    /\ IF c = "Parse" THEN TRUE ELSE IdleParse
    /\ IF c = "Env" THEN TRUE ELSE IdleEnv
    /\ IF c = "Op" THEN TRUE ELSE IdleOp
    /\ IF c = "Ind" THEN TRUE ELSE IdleInd
    /\ IF c = "Best" THEN TRUE ELSE IdleBest
    /\ IF c = "Cross" THEN TRUE ELSE IdleCross
    /\ IF c = "Iter" THEN TRUE ELSE IdleIter
    /\ IF c = "Copy" THEN TRUE ELSE IdleCopy
    /\ IF c = "Sp" THEN TRUE ELSE IdleSp
    /\ IF c = "Bw" THEN TRUE ELSE IdleBw
    /\ IF c = "Syn" THEN TRUE ELSE IdleSyn
    /\ IF c = "Fit" THEN TRUE ELSE IdleFit
    /\ IF c = "Str" THEN TRUE ELSE IdleStr
    /\ IF c = "Eq" THEN TRUE ELSE IdleEq
    /\ IF c = "Crowd" THEN TRUE ELSE IdleCrowd
    /\ IF c = "Ftf" THEN TRUE ELSE IdleFtf
    /\ IF c = "Tourn" THEN TRUE ELSE IdleTourn
    /\ IF c = "Step" THEN TRUE ELSE IdleStep
    /\ IF c = "Life" THEN TRUE ELSE IdleLife
    /\ IF c = "Integ" THEN TRUE ELSE IdleInteg

(***************************************************************************)
(* The parser component.                                                   *)
(***************************************************************************)
InitParse ==
    /\ population_generations \in 1..MaxGenerations
    /\ \/ /\ parts \in WrittenParts
          /\ ~parts.pop => (parts.b = Absent /\ parts.popsep = ",")
          /\ signature = Write(parts)
       \/ /\ parts = RawParts
          /\ signature = <<>>
    /\ strategy = Unset
    /\ process = Unset
    /\ IdleBut("Parse")

\* the caller writes one more character of a raw input string
TypeChar ==
    /\ parts = RawParts
    /\ strategy = Unset
    /\ process = Unset
    /\ Len(signature) < MaxRawLen
    /\ \E c \in RawAlphabet : signature' = Append(signature, c)
    /\ UNCHANGED <<population_generations, parts, strategy, process>>
    /\ UNCHANGED notParse

\* strategy = Strategy.from_string(signature, population_generations)
FromString ==
    /\ strategy = Unset
    /\ strategy' = from_string(signature, population_generations)
    /\ UNCHANGED <<signature, population_generations, parts, process>>
    /\ UNCHANGED notParse

\* process = StrategyProcess(breeder, fitness, population_generations, signature)
PostInit ==
    /\ process = Unset
    /\ process' = StrategyProcess(population_generations, signature)
    /\ UNCHANGED <<signature, population_generations, parts, strategy>>
    /\ UNCHANGED notParse

NextParse == TypeChar \/ FromString \/ PostInit

SpecParse == InitParse /\ [][NextParse]_vars

(***************************************************************************)
(* Properties of the parser.                                               *)
(***************************************************************************)
OrOne(n) == IF n = Absent THEN 1 ELSE n[1]

Example1 == <<"(", "5", "/", "2", ",", "1", "0", ")">>

Example2 ==
    <<"3", "/", "1", ",", "5", "(", "2", "/", "2", ",", "1", "4", ")", "^", "1", "0">>

\* C1: parsing a/b{+|,}c(d/e{+|,}f)^g binds a, b, c to the population parent
\* count, mixing proportion and offspring count, d, e, f to the individual
\* ones and g to the individual generation repeat; an inclusion flag is true
\* exactly for the separator '+'; an absent optional part yields 1 (and
\* population parent inclusion false).  Both for Strategy.from_string and for
\* StrategyProcess, and on the two example signatures.
C1_SignatureBinding ==
    /\ (parts.wrap = "plain" /\ strategy.kind = "Strategy") =>
          /\ strategy.init_populations = (IF parts.pop THEN parts.a ELSE 1)
          /\ strategy.population_reproduction.group_size =
                 (IF parts.pop THEN OrOne(parts.b) ELSE 1)
          /\ strategy.population_reproduction.out_size =
                 (IF parts.pop THEN parts.c ELSE 1)
          /\ strategy.select_parent_populations =
                 (parts.pop /\ parts.popsep = "+")
          /\ strategy.init_individuals = parts.d
          /\ strategy.reproduction.in_size = OrOne(parts.e)
          /\ strategy.reproduction.total = parts.f
          /\ (strategy.selection.in_size = parts.f + parts.d)
                 = (parts.indsep = "+")
          /\ (strategy.selection.in_size = parts.f) = (parts.indsep = ",")
          /\ strategy.generations = OrOne(parts.g)
    /\ (parts.wrap = "plain" /\ process.kind = "StrategyProcess") =>
          /\ process._pop_mu = (IF parts.pop THEN parts.a ELSE 1)
          /\ process._pop_rho = (IF parts.pop THEN OrOne(parts.b) ELSE 1)
          /\ process._pop_lambda = (IF parts.pop THEN parts.c ELSE 1)
          /\ process._pop_parents_included = (parts.pop /\ parts.popsep = "+")
          /\ process._ind_mu = parts.d
          /\ process._ind_rho = OrOne(parts.e)
          /\ process._ind_lambda = parts.f
          /\ process._ind_parents_included = (parts.indsep = "+")
          /\ process._ind_gamma = OrOne(parts.g)
    /\ (signature = Example1 /\ strategy.kind # "unset") =>
          /\ strategy.kind = "Strategy"
          /\ strategy.init_individuals = 5
          /\ strategy.reproduction.in_size = 2
          /\ strategy.reproduction.total = 10
          /\ strategy.selection.in_size = 10
          /\ strategy.init_populations = 1
          /\ strategy.population_reproduction.out_size = 1
    /\ (signature = Example2 /\ strategy.kind # "unset") =>
          /\ strategy.kind = "Strategy"
          /\ strategy.init_populations = 3
          /\ strategy.population_reproduction.group_size = 1
          /\ strategy.population_reproduction.out_size = 5
          /\ ~strategy.select_parent_populations
          /\ strategy.init_individuals = 2
          /\ strategy.reproduction.in_size = 2
          /\ strategy.reproduction.total = 14
          /\ strategy.selection.in_size = 14
          /\ strategy.generations = 10

\* the second example signature has been parsed by both parsers
C1_Witness ==
    /\ signature = Example2
    /\ strategy.kind = "Strategy"
    /\ strategy.population_reproduction.out_size = 5
    /\ process.kind = "StrategyProcess"
    /\ process._ind_gamma = 10

\* the whole string is one signature
FullMatch(s) ==
    /\ Len(s) > 0
    /\ MatchAt(s, 1).ok
    /\ MatchAt(s, 1).end = Len(s) + 1

\* the whole string is [signature] or [signature]^h
FullMatchBracketed(s) ==
    /\ At(s, 1) = "["
    /\ \E j \in 2..Len(s) :
          /\ s[j] = "]"
          /\ FullMatch(Slice(s, 2, j))
          /\ \/ j = Len(s)
             \/ /\ At(s, j + 1) = "^"
                /\ j + 2 <= Len(s)
                /\ DigitsEnd(s, j + 2) = Len(s) + 1

Conforms(s) == FullMatch(s) \/ FullMatchBracketed(s)

\* C2: a signature string is accepted only if the whole string conforms to
\* the signature grammar; every other string makes Strategy.from_string and
\* the construction of a StrategyProcess raise ValueError.
C2_OnlyConformingAccepted ==
    /\ strategy.kind = "Strategy" => Conforms(signature)
    /\ process.kind = "StrategyProcess" => Conforms(signature)

Genomes == 0..MaxGene

\* Individual(genes): fitness starts at 0.0
Individual(genes) == [genes |-> genes, fitness |-> 0]

\* the user's fitness method, a function of the genes that does not raise
method(ind) == ind.genes + 1

evaluate_population(pop) ==
    [k \in 1..Len(pop) |-> [pop[k] EXCEPT !.fitness = method(pop[k])]]

\* Fitness.evaluate(objects): the first `if` handles a Community; the chain
\* `if Population / elif Individual / else raise TypeError` follows it, so a
\* Community is evaluated and then reaches the `else`.
evaluate(type, objects) ==
    LET after1 == IF type = "Community"
                  THEN [k \in 1..Len(objects) |-> evaluate_population(objects[k])]
                  ELSE objects
    IN  IF type = "Population"
        THEN [objects |-> evaluate_population(after1), raised |-> "none"]
        ELSE IF type = "Individual"
        THEN [objects |-> [after1 EXCEPT !.fitness = method(after1)],
              raised |-> "none"]
        ELSE [objects |-> after1, raised |-> "TypeError"]

\* OperatorChain.process of the community strategy: execute's default
\* community strategy has the empty chain, which hands the container back
OperatorChain_process(container) == container

Hook(name, k) == [hook |-> name, population |-> k]

InitEnv ==
    /\ env_pc = "breed"
    /\ community_strategy \in
          [init_size : 1..MaxInitSize, generations : 0..MaxRunGenerations]
    /\ population_strategy \in
          [init_size : 1..MaxInitSize, generations : 0..MaxRunGenerations]
    /\ populations = <<>>
    /\ generation = [outer |-> 0, inner |-> 0, i |-> 0]
    /\ hooks = <<>>

\* one round of the first loop: breed a population, integrate it, evaluate
\* it and fire on_start
EnvBreed ==
    /\ env_pc = "breed"
    /\ \E genomes \in [1..population_strategy.init_size -> Genomes] :
          LET population ==
                  [k \in 1..population_strategy.init_size |-> Individual(genomes[k])]
              r == evaluate("Population", population)
          IN  /\ populations' = Append(populations, r.objects)
              /\ IF r.raised # "none"
                 THEN /\ env_pc' = "raised"
                      /\ hooks' = hooks
                 ELSE /\ hooks' = Append(hooks, Hook("on_start", Len(populations) + 1))
                      /\ env_pc' =
                             IF Len(populations) + 1 = community_strategy.init_size
                             THEN "evolve" ELSE "breed"
    /\ UNCHANGED <<community_strategy, population_strategy, generation>>
    /\ UNCHANGED notEnv

\* the head of one outer generation: the community operator chain and
\* fitness.evaluate(populations)
EnvCommunityGeneration ==
    /\ env_pc = "evolve"
    /\ generation.outer < community_strategy.generations
    /\ LET r == evaluate("Community", OperatorChain_process(populations))
       IN  /\ populations' = r.objects
           /\ IF r.raised # "none"
              THEN /\ env_pc' = "raised"
                   /\ generation' = generation
              ELSE /\ env_pc' = "inner"
                   /\ generation' = [generation EXCEPT !.inner = 0, !.i = 1]
    /\ UNCHANGED <<community_strategy, population_strategy, hooks>>
    /\ UNCHANGED notEnv

\* one round of the innermost loop: on_generation_start, the population
\* operator chain, fitness.evaluate(populations[i]), on_generation_end.
\* The chain may hand back any population of the same size.
EnvPopulationGeneration ==
    /\ env_pc = "inner"
    /\ generation.inner < population_strategy.generations
    /\ \E genomes \in [1..Len(populations[generation.i]) -> Genomes] :
          LET processed == [k \in 1..Len(genomes) |-> Individual(genomes[k])]
              r == evaluate("Population", processed)
              last == generation.i = Len(populations)
          IN  /\ populations' = [populations EXCEPT ![generation.i] = r.objects]
              /\ hooks' = hooks \o
                     << Hook("on_generation_start", generation.i),
                        Hook("on_generation_end", generation.i) >>
              /\ generation' =
                     IF ~last THEN [generation EXCEPT !.i = @ + 1]
                     ELSE [generation EXCEPT !.i = 1, !.inner = @ + 1]
              /\ env_pc' = "inner"
    /\ UNCHANGED <<community_strategy, population_strategy>>
    /\ UNCHANGED notEnv

\* the inner loop of one outer generation is exhausted
EnvNextCommunityGeneration ==
    /\ env_pc = "inner"
    /\ generation.inner = population_strategy.generations
    /\ generation' = [generation EXCEPT !.outer = @ + 1]
    /\ env_pc' = "evolve"
    /\ UNCHANGED <<community_strategy, population_strategy, populations, hooks>>
    /\ UNCHANGED notEnv

\* the outer loop is exhausted: execute returns (None)
EnvReturn ==
    /\ env_pc = "evolve"
    /\ generation.outer = community_strategy.generations
    /\ env_pc' = "done"
    /\ UNCHANGED <<community_strategy, population_strategy, populations,
                   generation, hooks>>
    /\ UNCHANGED notEnv

Init == InitEnv /\ IdleBut("Env")

\* EnvPopulationGeneration and EnvNextCommunityGeneration wait for
\* env_pc = "inner", which EnvInnerNeverEntered shows is never reached:
\* they are no steps of a run.
Next == EnvBreed \/ EnvCommunityGeneration \/ EnvReturn

Spec == Init /\ [][Next]_vars

\* execute never gets past fitness.evaluate(populations)
EnvInnerNeverEntered == env_pc # "inner"

\* C4: a run of the nested loop with a valid strategy and a fitness function,
\* operators and callbacks that do not raise always terminates normally,
\* after exactly h outer generations of exactly g inner generations each.
C4_TerminatesNormally ==
    /\ env_pc # "raised"
    /\ env_pc = "done" =>
          /\ generation.outer = community_strategy.generations
          /\ Len(SelectSeq(hooks, LAMBDA c : c.hook = "on_generation_end")) =
                 community_strategy.generations * population_strategy.generations
                     * Len(populations)

(***************************************************************************)
(* Operator.process.  peal/operations/operator.py: process takes a tuple   *)
(* of individuals (one operation) or a Population (process_all, batch by   *)
(* batch through the iteration type); peal/operators/operator.py: process  *)
(* takes a Population or a Community and goes batch by batch.  Containers  *)
(* are sequences of element numbers.                                       *)
(***************************************************************************)
Min(a, b) == IF a < b THEN a ELSE b

\* the abstract _process as a subclass implements it: Best keeps the top
\* out_size elements of what it is given (sorted(...)[:out_size]); "fixed"
\* is a subclass that returns `returns` elements whatever it is given
\* (Tournament returns 1, a reproduction operator its offspring)
_process(o, batch) ==
    IF o.subclass = "Best"
    THEN SubSeq(batch, 1, Min(o.out_size, Len(batch)))
    ELSE [k \in 1..o.returns |-> 0]

\* StraightIteration: population[i:i+batch_size] (SingleIteration is the
\* batch size 1); a slice past the end is cut short
StraightBatch(container, i, batch_size) ==
    SubSeq(container, i, Min(i + batch_size - 1, Len(container)))

Operators ==
    [version : {"operations", "operators"},
     subclass : {"Best", "fixed"},
     in_size : 1..MaxOpSize,
     out_size : 1..MaxOpSize,
     batch_size : 1..MaxOpSize,
     returns : 0..MaxOpSize,
     argument : {"tuple", "Population"},
     size : 0..MaxContainer]

InitOp ==
    /\ op \in Operators
    \* Best.__init__ raises when in_size < out_size and iterates straight
    \* in batches of in_size; its own result size is not a parameter
    /\ op.subclass = "Best" =>
          /\ op.in_size >= op.out_size
          /\ op.batch_size = op.in_size
          /\ op.returns = 0
    \* the operators of peal.operators take containers only and have no
    \* in_size of their own: it is the batch size of their iteration type
    /\ op.version = "operators" =>
          /\ op.argument = "Population"
          /\ op.batch_size = op.in_size
    /\ op_pc = "ready"
    /\ op_i = 1
    /\ new_population = <<>>
    /\ op_batches = <<>>
    /\ IdleBut("Op")

Argument == [k \in 1..op.size |-> k]

\* process(individuals) on a tuple: the checked single operation
OpProcessTuple ==
    /\ op_pc = "ready"
    /\ op.argument = "tuple"
    /\ IF Len(Argument) # op.in_size
       THEN /\ op_pc' = "ValueError"
            /\ UNCHANGED <<new_population, op_batches>>
       ELSE IF Len(_process(op, Argument)) # op.out_size
       THEN /\ op_pc' = "ValueError"
            /\ new_population' = <<>>
            /\ op_batches' = Append(op_batches,
                   [taken |-> Len(Argument),
                    returned |-> Len(_process(op, Argument))])
       ELSE /\ op_pc' = "returned"
            /\ new_population' = _process(op, Argument)
            /\ op_batches' = Append(op_batches,
                   [taken |-> Len(Argument),
                    returned |-> Len(_process(op, Argument))])
    /\ UNCHANGED <<op, op_i>>
    /\ UNCHANGED notOp

\* process(population): one round of the loop over the batches, which
\* hands the batch to _process and collects what comes back
OpProcessBatch ==
    /\ op_pc = "ready"
    /\ op.argument = "Population"
    /\ op_i <= Len(Argument)
    /\ new_population' = new_population \o
           _process(op, StraightBatch(Argument, op_i, op.batch_size))
    /\ op_batches' = Append(op_batches,
           [taken |-> Len(StraightBatch(Argument, op_i, op.batch_size)),
            returned |->
                Len(_process(op, StraightBatch(Argument, op_i, op.batch_size)))])
    /\ op_i' = op_i + op.batch_size
    /\ UNCHANGED <<op, op_pc>>
    /\ UNCHANGED notOp

\* process(population): the iteration is exhausted, the new container is
\* returned
OpReturn ==
    /\ op_pc = "ready"
    /\ op.argument = "Population"
    /\ op_i > Len(Argument)
    /\ op_pc' = "returned"
    /\ UNCHANGED <<op, op_i, new_population, op_batches>>
    /\ UNCHANGED notOp

NextOp == OpProcessTuple \/ OpProcessBatch \/ OpReturn

SpecOp == InitOp /\ [][NextOp]_vars

\* C5: process fails fast on every arity mismatch, on a tuple and batch-wise
\* on a container: whenever it returns, every batch held exactly in_size
\* elements, every _process result exactly out_size elements, and the
\* returned container holds (number of batches x out_size) elements.
C5_ArityChecked ==
    op_pc = "returned" =>
        /\ \A k \in 1..Len(op_batches) :
              /\ op_batches[k].taken = op.in_size
              /\ op_batches[k].returned = op.out_size
        /\ Len(new_population) = Len(op_batches) * op.out_size

(***************************************************************************)
(* The Individual with the dirty flag (peal/population/individual.py).     *)
(* Genes are a sequence (its length is the array's shape), a fitness value *)
(* carries its Python type, which the setter inspects.                     *)
(***************************************************************************)
Arrays == UNION {[1..n -> Genomes] : n \in 1..MaxShape}

Numbers == [type : {"float", "int"}, value : 0..MaxGene]

\* Individual.__init__
DirtyIndividual(genes, dtype) ==
    [_genes |-> genes, dtype |-> dtype,
     _fitness |-> [type |-> "float", value |-> 0],
     fitted |-> FALSE, _hidden_genes |-> <<>>]

\* the setter's test: it looks at the stored fitness, not at the new one
fitness_setter_raises(self) == self._fitness.type # "float"

genes_setter_raises(self, genes) ==
    self.dtype # "object" /\ Len(self._genes) # Len(genes)

\* what the fitness setter leaves in `fitted` (line 28 precedes the raise)
fitted_after_fitness_mut(self, raises) == IF raises THEN self.fitted ELSE TRUE

fitted_after_fitness(self, raises) == TRUE

InitInd ==
    /\ \E genes \in Arrays, dtype \in {"int64", "object"} :
          individual = DirtyIndividual(genes, dtype)
    /\ ind_last = "new"
    /\ ind_raised = None
    /\ ind_steps = 0
    /\ IdleBut("Ind")

\* x = individual.genes
IndReadGenes ==
    /\ ind_steps < MaxIndSteps
    /\ individual' = [individual EXCEPT !.fitted = FALSE]
    /\ ind_last' = "genes"
    /\ ind_raised' = None
    /\ ind_steps' = ind_steps + 1
    /\ UNCHANGED notInd

\* individual.genes = genes
IndWriteGenes ==
    /\ ind_steps < MaxIndSteps
    /\ \E genes \in Arrays :
          IF genes_setter_raises(individual, genes)
          THEN /\ individual' = [individual EXCEPT !.fitted = FALSE]
               /\ ind_raised' = "ValueError"
          ELSE /\ individual' = [individual EXCEPT !.fitted = FALSE, !._genes = genes]
               /\ ind_raised' = None
    /\ ind_last' = "genes"
    /\ ind_steps' = ind_steps + 1
    /\ UNCHANGED notInd

\* individual.fitness = fitness
IndAssignFitness ==
    /\ ind_steps < MaxIndSteps
    /\ \E fitness \in Numbers :
          IF fitness_setter_raises(individual)
          THEN /\ individual' = [individual EXCEPT
                      !.fitted = fitted_after_fitness(individual, TRUE)]
               /\ ind_raised' = "TypeError"
          ELSE /\ individual' = [individual EXCEPT
                      !.fitted = fitted_after_fitness(individual, FALSE),
                      !._fitness = fitness]
               /\ ind_raised' = None
    /\ ind_last' = "fitness"
    /\ ind_steps' = ind_steps + 1
    /\ UNCHANGED notInd

\* x = individual.fitness, x = individual.hidden_genes: plain reads
IndRead ==
    /\ ind_steps < MaxIndSteps
    /\ ind_raised' = None
    /\ ind_steps' = ind_steps + 1
    /\ UNCHANGED <<individual, ind_last>>
    /\ UNCHANGED notInd

\* individual.hidden_genes = hidden_genes
IndWriteHidden ==
    /\ ind_steps < MaxIndSteps
    /\ \E step_size \in Genomes :
          individual' = [individual EXCEPT !._hidden_genes = <<step_size>>]
    /\ ind_raised' = None
    /\ ind_steps' = ind_steps + 1
    /\ UNCHANGED ind_last
    /\ UNCHANGED notInd

NextInd ==
    IndReadGenes \/ IndWriteGenes \/ IndAssignFitness \/ IndRead
        \/ IndWriteHidden

SpecInd == InitInd /\ [][NextInd]_vars

\* C6: a new individual is not fitted, and under any sequence of reads and
\* writes of genes and assignments to fitness, fitted is TRUE exactly when
\* the most recent of these operations was a fitness assignment (whether or
\* not the operation raised).
C6_FittedIffFitnessLast ==
    /\ ind_last = "new" => ~individual.fitted
    /\ ind_last = "genes" => ~individual.fitted
    /\ ind_last = "fitness" => individual.fitted

\* a fitness assignment that raised TypeError, made after a gene access
C6_Witness ==
    /\ ind_last = "fitness"
    /\ ind_raised = "TypeError"
    /\ individual.fitted
    /\ ind_steps >= 3

(***************************************************************************)
(* Best selection (peal/operations/selection.py, peal/operators/           *)
(* selection.py).  An individual is an object: id is its identity, the     *)
(* individuals of the input population have the ids 1..N, a copy is a new  *)
(* object that remembers which object it was copied from.                  *)
(***************************************************************************)
Front(s) == SubSeq(s, 1, Len(s) - 1)

\* the order of sorted(key=fitness, reverse=True): an element a that came
\* earlier stays before x when its key is not smaller (the sort is stable)
stays_before_mut(a, x) == a.fitness > x.fitness

stays_before(a, x) == a.fitness >= x.fitness

InsertAt(s, p, x) == SubSeq(s, 1, p) \o <<x>> \o SubSeq(s, p + 1, Len(s))

Insert(s, x) ==
    InsertAt(s, Cardinality({i \in 1..Len(s) : stays_before(s[i], x)}), x)

RECURSIVE sorted(_)
sorted(individuals) ==
    IF individuals = <<>> THEN <<>>
    ELSE Insert(sorted(Front(individuals)),
                individuals[Len(individuals)])

\* Individual.copy(): a new object with the same genes and fitness
copy(x, fresh) ==
    [id |-> fresh, copy_of |-> x.id, genes |-> x.genes,
     fitness |-> x.fitness]

\* Best._process: copies of sorted(...)[:out_size]; the new objects are
\* numbered after the N objects of the input
Best_process(self, individuals) ==
    [j \in 1..Min(self.out_size, Len(individuals)) |->
        copy(sorted(individuals)[j], Len(individuals) + j)]

\* range(0, size, batch_size) raises ValueError for a step of zero
range_raises(batch_size) == batch_size = 0

InitBest ==
    /\ \E N \in 0..MaxBest, version \in {"operations", "operators"} :
          /\ \E k \in 0..N :
                best = [version |-> version, in_size |-> N, out_size |-> k]
          /\ \E fitness \in [1..N -> 0..MaxFitness] :
                best_population =
                    [i \in 1..N |-> [id |-> i, copy_of |-> 0,
                                     genes |-> i % (MaxGene + 1),
                                     fitness |-> fitness[i]]]
    /\ best_pc = "ready"
    /\ best_result = <<>>
    /\ IdleBut("Best")

\* Best(in_size=N, out_size=k).process(population): StraightIteration with
\* batch_size = in_size yields the whole population as its one batch
BestProcess ==
    /\ best_pc = "ready"
    /\ IF range_raises(best.in_size)
       THEN /\ best_pc' = "ValueError"
            /\ UNCHANGED best_result
       ELSE /\ best_pc' = "returned"
            /\ best_result' = Best_process(best,
                   StraightBatch(best_population, 1, best.in_size))
    /\ UNCHANGED <<best, best_population>>
    /\ UNCHANGED notBest

NextBest == BestProcess

SpecBest == InitBest /\ [][NextBest]_vars

BestSelected == {best_result[j].copy_of : j \in 1..Len(best_result)}

BestPostcondition ==
    /\ Len(best_result) = best.out_size
    /\ \A j \in 1..Len(best_result) :
          /\ best_result[j].copy_of \in 1..Len(best_population)
          /\ best_result[j].id \notin 1..Len(best_population)
          /\ best_result[j].fitness =
                best_population[best_result[j].copy_of].fitness
          /\ best_result[j].genes =
                best_population[best_result[j].copy_of].genes
    /\ \A j1, j2 \in 1..Len(best_result) :
          j1 < j2 =>
             /\ best_result[j1].fitness >= best_result[j2].fitness
             /\ best_result[j1].copy_of # best_result[j2].copy_of
             /\ best_result[j1].id # best_result[j2].id
             /\ best_result[j1].fitness = best_result[j2].fitness =>
                   best_result[j1].copy_of < best_result[j2].copy_of
    /\ \A i \in (1..Len(best_population)) \ BestSelected :
          \A j \in 1..Len(best_result) :
             best_population[i].fitness <= best_result[j].fitness

\* C7 as stated: for every population of exactly N individuals and every
\* k <= N, Best(N, k).process returns k individuals in non-increasing order
\* of fitness, each a copy of a different input individual, none left out is
\* strictly fitter than a returned one, and ties keep their input order.
C7_BestAnyN ==
    best_pc \in {"returned", "ValueError"} =>
        best_pc = "returned" /\ BestPostcondition

\* C7 for N >= 1: the same result; for N = 0 the iteration has a step of
\* zero and process raises ValueError instead of returning no individuals.
C7_BestPositiveN ==
    /\ best_pc \in {"returned", "ValueError"} /\ best.in_size >= 1 =>
          best_pc = "returned" /\ BestPostcondition
    /\ best_pc = "ValueError" => best.in_size = 0

\* a selection of 2 out of 3 where two individuals tie and one fitter
\* individual comes last in the input
C7_Witness ==
    /\ best_pc = "returned"
    /\ best.in_size = 3
    /\ best.out_size = 2
    /\ best_population[1].fitness = best_population[2].fitness
    /\ best_population[3].fitness > best_population[1].fitness
    /\ best_result[1].copy_of = 3
    /\ best_result[2].copy_of = 1

(***************************************************************************)
(* Crossover: _process of peal/operations/reproduction/common.py and       *)
(* _process_population of peal/operators/reproduction.py.  A genome is a   *)
(* sequence of genes; Python's position g is the model's position g + 1.   *)
(* Probabilities and uniform draws are counted in tenths.                  *)
(***************************************************************************)
Alleles == {0, 1}

Probabilities == {0, 5, 10}

\* np.random.random(): a value of [0, 1)
Draws == {0, 5, 9}

\* np.sort, ascending
SortedInsert(s, x) ==
    InsertAt(s, Cardinality({i \in 1..Len(s) : s[i] <= x}), x)

RECURSIVE np_sort(_)
np_sort(s) ==
    IF s = <<>> THEN <<>> ELSE SortedInsert(np_sort(Front(s)), s[Len(s)])

\* np.insert(arr, [0, -1], [0, L]): the index -1 is taken from the end of
\* arr, so L goes in front of the last element of arr; with an empty arr
\* the insertion fails (ValueError)
np_insert_raises(arr) == arr = <<>>

np_insert(arr, L) ==
    <<0>> \o Front(arr) \o <<L>> \o <<arr[Len(arr)]>>

\* off.genes[a:b] = src.genes[a:b]; a slice with a >= b is empty
assign_slice(off, src, a, b) ==
    [g \in 1..Len(off) |-> IF a < g /\ g <= b THEN src[g] ELSE off[g]]

\* for i in range(i, stop, 2): off.genes[points[i]:points[i+1]] = ...
RECURSIVE exchange(_, _, _, _, _)
exchange(off, src, points, i, stop) ==
    IF i >= stop THEN off
    ELSE exchange(assign_slice(off, src, points[i + 1], points[i + 2]),
                  src, points, i + 2, stop)

start(npoints) == npoints % 2

\* the two offspring for the boundaries `points`
offspring(ind1, ind2, points, npoints) ==
    <<exchange(ind1, ind2, points, start(npoints),
               npoints + (1 - start(npoints))),
      exchange(ind2, ind1, points, start(npoints),
               npoints + (1 - start(npoints)))>>

\* np.random.randint(1, len(genes), size=npoints)
randint(L, npoints) == [1..npoints -> 1..(L - 1)]

Crossovers ==
    [version : {"operations"}, npoints : 0..MaxPoints, probability : {5}]
        \cup [version : {"operators", "population"}, npoints : 0..MaxPoints,
              probability : Probabilities]

InitCross ==
    /\ cross \in Crossovers
    /\ \E L \in 2..MaxLength :
          cross_parents \in [1..2 -> [1..L -> Alleles]]
    /\ cross_pc = "ready"
    /\ cross_points = None
    /\ cross_offspring = <<>>
    /\ cross_draw = None
    /\ IdleBut("Cross")

\* the exchange both versions share, for the drawn cut points
CrossExchange(cuts) ==
    IF np_insert_raises(np_sort(cuts))
    THEN /\ cross_pc' = "ValueError"
         /\ cross_points' = None
         /\ UNCHANGED cross_offspring
    ELSE /\ cross_pc' = "returned"
         /\ cross_points' = np_insert(np_sort(cuts), Len(cross_parents[1]))
         /\ cross_offspring' =
               offspring(cross_parents[1], cross_parents[2],
                         np_insert(np_sort(cuts), Len(cross_parents[1])),
                         cross.npoints)

\* peal/operations/reproduction/common.py: Crossover._process
CrossProcess ==
    /\ cross_pc = "ready"
    /\ cross.version = "operations"
    /\ \E cuts \in randint(Len(cross_parents[1]), cross.npoints) :
          CrossExchange(cuts)
    /\ UNCHANGED <<cross, cross_parents, cross_draw>>
    /\ UNCHANGED notCross

\* what the probability test sends to the early `return container.copy()`
returns_copies(r, probability) == r <= probability

\* peal/operators/reproduction.py: Crossover._process_population
CrossProcessPopulation ==
    /\ cross_pc = "ready"
    /\ cross.version = "operators"
    /\ \E r \in Draws :
          /\ cross_draw' = <<r>>
          /\ IF returns_copies(r, cross.probability)
             THEN /\ cross_pc' = "returned"
                  /\ cross_points' = None
                  /\ cross_offspring' = cross_parents
             ELSE \E cuts \in randint(Len(cross_parents[1]), cross.npoints) :
                     CrossExchange(cuts)
    /\ UNCHANGED <<cross, cross_parents>>
    /\ UNCHANGED notCross

\* RandomStraightIteration: the batch is yielded when the draw is at most
\* the probability
yields(r, probability) == r <= probability

\* peal/operations/reproduction.py: Crossover on a population of the two
\* parents; its RandomStraightIteration(2, probability) yields the one batch
\* to _process or skips it, and the results are what the operator returns
CrossProcessAll ==
    /\ cross_pc = "ready"
    /\ cross.version = "population"
    /\ \E r \in Draws :
          /\ cross_draw' = <<r>>
          /\ IF yields(r, cross.probability)
             THEN \E cuts \in randint(Len(cross_parents[1]), cross.npoints) :
                     CrossExchange(cuts)
             ELSE /\ cross_pc' = "skipped"
                  /\ cross_points' = None
                  /\ cross_offspring' = <<>>
    /\ UNCHANGED <<cross, cross_parents>>
    /\ UNCHANGED notCross

NextCross == CrossProcess \/ CrossProcessPopulation \/ CrossProcessAll

SpecCross == InitCross /\ [][NextCross]_vars

\* at every position the two offspring carry the two parents' genes, as
\* they were or exchanged
PairwiseFromParents ==
    /\ Len(cross_offspring) = 2
    /\ Len(cross_offspring[1]) = Len(cross_parents[1])
    /\ Len(cross_offspring[2]) = Len(cross_parents[1])
    /\ \A g \in 1..Len(cross_parents[1]) :
          \/ /\ cross_offspring[1][g] = cross_parents[1][g]
             /\ cross_offspring[2][g] = cross_parents[2][g]
          \/ /\ cross_offspring[1][g] = cross_parents[2][g]
             /\ cross_offspring[2][g] = cross_parents[1][g]

\* C8: for every two parents of the same length L >= 2, every npoints and
\* every choice of cut points, Crossover returns two offspring that carry at
\* every position the two parents' genes of that position, as they were or
\* exchanged (so no gene is invented or lost).
C8_OffspringFromParents ==
    cross_pc \in {"returned", "ValueError"} =>
        cross_pc = "returned" /\ PairwiseFromParents

\* the part of C8 that holds: whenever Crossover returns, with one or more
\* cut points or by its early return, the offspring are made of the
\* parents' genes position by position
CrossReturnedFromParents ==
    /\ cross_pc = "returned" => PairwiseFromParents
    /\ cross_pc = "ValueError" => cross.npoints = 0

(***************************************************************************)
(* NRandomBatchesIteration (peal/operations/iteration.py, peal/operators/  *)
(* iteration.py).  The container holds the elements 1..n at the Python     *)
(* positions 0..n-1.  Of the batches yielded the model keeps their number, *)
(* the last one, and the set of elements the earlier ones held.            *)
(***************************************************************************)
\* np.random.choice(n, size=size, replace=False): size different values of
\* range(n) in any order; a ValueError when size exceeds n
choice_raises(n, size) == size > n

choice_mut(n, size) == [1..size -> 0..(n - 1)]

choice(n, size) ==
    {s \in [1..size -> 0..(n - 1)] :
        \A i, j \in 1..size : i # j => s[i] # s[j]}

\* total = self._total if self._total is not None else container.size
iter_total(self, container) ==
    IF self.total = Absent THEN Len(container) ELSE self.total[1]

\* container[list(indices)] / tuple(population[i] for i in indices)
getitem(container, indices) ==
    [k \in 1..Len(indices) |-> container[indices[k] + 1]]

InitIter ==
    /\ iter \in [version : {"operations", "operators"},
                 batch_size : 1..MaxOpSize,
                 total : Opt(0..MaxTotal)]
    /\ \E n \in 0..MaxContainer : iter_container = [k \in 1..n |-> k]
    /\ iter_pc = "iterating"
    /\ iter_count = 0
    /\ iter_batch = [indices |-> <<>>, elements |-> <<>>]
    /\ iter_seen = {}
    /\ IdleBut("Iter")

\* one round of `for _ in range(total)`: draw the indices, yield the batch
IterYield ==
    /\ iter_pc = "iterating"
    /\ iter_count < iter_total(iter, iter_container)
    /\ IF choice_raises(Len(iter_container), iter.batch_size)
       THEN /\ iter_pc' = "ValueError"
            /\ UNCHANGED <<iter_count, iter_batch, iter_seen>>
       ELSE /\ \E indices \in choice(Len(iter_container), iter.batch_size) :
                  iter_batch' = [indices |-> indices,
                                 elements |-> getitem(iter_container, indices)]
            /\ iter_count' = iter_count + 1
            /\ iter_seen' = iter_seen \cup
                  {iter_batch.elements[k] : k \in 1..Len(iter_batch.elements)}
            /\ UNCHANGED iter_pc
    /\ UNCHANGED <<iter, iter_container>>
    /\ UNCHANGED notIter

\* range(total) is exhausted: the iterator stops
IterStop ==
    /\ iter_pc = "iterating"
    /\ iter_count >= iter_total(iter, iter_container)
    /\ iter_pc' = "exhausted"
    /\ UNCHANGED <<iter, iter_container, iter_count, iter_batch, iter_seen>>
    /\ UNCHANGED notIter

NextIter == IterYield \/ IterStop

SpecIter == InitIter /\ [][NextIter]_vars

\* C9: iterating a container of n >= b elements, NRandomBatchesIteration(b,
\* t) yields exactly t batches (n batches when total is None), and every
\* batch holds exactly b elements taken from b pairwise different positions
\* of the container.
C9_BatchesOfDistinct ==
    Len(iter_container) >= iter.batch_size /\ iter_pc # "idle" =>
        /\ iter_pc # "ValueError"
        /\ iter_count <= iter_total(iter, iter_container)
        /\ iter_pc = "exhausted" =>
              iter_count = iter_total(iter, iter_container)
        /\ iter.total = Absent /\ iter_pc = "exhausted" =>
              iter_count = Len(iter_container)
        /\ iter_count >= 1 =>
              /\ Len(iter_batch.elements) = iter.batch_size
              /\ \A k \in 1..iter.batch_size :
                    /\ iter_batch.indices[k] \in 0..(Len(iter_container) - 1)
                    /\ iter_batch.elements[k] =
                          iter_container[iter_batch.indices[k] + 1]
              /\ \A j, k \in 1..iter.batch_size :
                    j # k => iter_batch.indices[j] # iter_batch.indices[k]

\* two batches of two out of three elements were yielded, and the second
\* holds an element the first one held
C9_Witness ==
    /\ iter_pc = "exhausted"
    /\ iter.total = <<2>>
    /\ iter.batch_size = 2
    /\ Len(iter_container) = 3
    /\ iter_count = 2
    /\ \E k \in 1..2 : iter_batch.elements[k] \in iter_seen

(***************************************************************************)
(* copy and deepcopy of Population and Community (peal/population.py,      *)
(* peal/community.py, peal/individual.py).  Objects live in a heap: an     *)
(* object is its number in the heap's sequence of its class, and a field   *)
(* that refers to an object holds that number.  An Individual refers to    *)
(* its genes array and its hidden genes array, a Population's list holds   *)
(* Individuals, a Community's list holds Populations.                      *)
(***************************************************************************)
EmptyHeap ==
    [arrays |-> <<>>, individuals |-> <<>>, populations |-> <<>>,
     communities |-> <<>>]

\* Individual(genes): a new object around the array `genes`, fitness 0.0,
\* and a new hidden genes array np.ones((1,))
Individual_init(h, genes) ==
    [h EXCEPT !.arrays = Append(@, <<1>>),
              !.individuals = Append(@, [genes |-> genes, fitness |-> 0,
                                         hidden_genes |-> Len(h.arrays) + 1])]

\* np.array(...): a new array object
np_array(h, values) == [h EXCEPT !.arrays = Append(@, values)]

\* Individual.copy(): Individual(self.genes.copy()), the same fitness, and
\* self.hidden_genes.copy()
Individual_copy_mut(h, i) ==
    [h EXCEPT !.arrays = Append(@, h.arrays[h.individuals[i].hidden_genes]),
              !.individuals = Append(@,
                  [genes |-> h.individuals[i].genes,
                   fitness |-> h.individuals[i].fitness,
                   hidden_genes |-> Len(h.arrays) + 1])]

Individual_copy(h, i) ==
    [h EXCEPT !.arrays = @ \o <<h.arrays[h.individuals[i].genes],
                                h.arrays[h.individuals[i].hidden_genes]>>,
              !.individuals = Append(@,
                  [genes |-> Len(h.arrays) + 1,
                   fitness |-> h.individuals[i].fitness,
                   hidden_genes |-> Len(h.arrays) + 2])]

\* Population(individuals): a new list, filled by integrate
Population_init(h, individuals) ==
    [h EXCEPT !.populations = Append(@, individuals)]

\* Population.copy(): Population(self)
Population_copy(h, p) == Population_init(h, h.populations[p])

\* Population.deepcopy(): Population(tuple(indiv.copy() for indiv in ...))
RECURSIVE copy_individuals(_, _, _, _)
copy_individuals(h, individuals, k, copies) ==
    IF k > Len(individuals) THEN Population_init(h, copies)
    ELSE copy_individuals(Individual_copy(h, individuals[k]), individuals,
                          k + 1, Append(copies, Len(h.individuals) + 1))

Population_deepcopy(h, p) == copy_individuals(h, h.populations[p], 1, <<>>)

Community_init(h, populations_) ==
    [h EXCEPT !.communities = Append(@, populations_)]

\* Community.copy(): Community(self)
Community_copy(h, c) == Community_init(h, h.communities[c])

\* Community.deepcopy(): Community(tuple(pop.deepcopy() for pop in ...))
RECURSIVE copy_populations(_, _, _, _)
copy_populations(h, populations_, k, copies) ==
    IF k > Len(populations_) THEN Community_init(h, copies)
    ELSE copy_populations(Population_deepcopy(h, populations_[k]),
                          populations_, k + 1,
                          Append(copies, Len(h.populations) + 1))

Community_deepcopy(h, c) == copy_populations(h, h.communities[c], 1, <<>>)

\* a population of n new individuals, each with the genes array [0]
RECURSIVE new_population_of(_, _, _)
new_population_of(h, n, individuals) ==
    IF n = 0 THEN Population_init(h, individuals)
    ELSE new_population_of(
             Individual_init(np_array(h, <<0>>), Len(h.arrays) + 1),
             n - 1, Append(individuals, Len(h.individuals) + 1))

\* a community of m new populations of one individual each
RECURSIVE new_community_of(_, _, _)
new_community_of(h, m, populations_) ==
    IF m = 0 THEN Community_init(h, populations_)
    ELSE new_community_of(new_population_of(h, 1, <<>>), m - 1,
                          Append(populations_, Len(h.populations) + 1))

Range(s) == {s[k] : k \in 1..Len(s)}

\* the populations and the individuals that are reached from container c
PopulationsOf(h, level, c) ==
    IF level = "Population" THEN {c} ELSE Range(h.communities[c])

IndividualsOf(h, level, c) ==
    UNION {Range(h.populations[x]) : x \in PopulationsOf(h, level, c)}

InitCopy ==
    /\ copy_level \in {"Population", "Community"}
    /\ \E n \in 0..MaxCopySize :
          heap = IF copy_level = "Population"
                 THEN new_population_of(EmptyHeap, n, <<>>)
                 ELSE new_community_of(EmptyHeap, n, <<>>)
    /\ copy_kind = "none"
    /\ copy_q = 0
    /\ copy_original = heap
    /\ copy_steps = 0
    /\ IdleBut("Copy")

\* q = p.copy()
CopyShallow ==
    /\ copy_kind = "none"
    /\ copy_kind' = "copy"
    /\ IF copy_level = "Population"
       THEN /\ heap' = Population_copy(heap, 1)
            /\ copy_q' = Len(heap.populations) + 1
       ELSE /\ heap' = Community_copy(heap, 1)
            /\ copy_q' = Len(heap.communities) + 1
    /\ UNCHANGED <<copy_level, copy_original, copy_steps>>
    /\ UNCHANGED notCopy

\* q = p.deepcopy()
CopyDeep ==
    /\ copy_kind = "none"
    /\ copy_kind' = "deepcopy"
    /\ IF copy_level = "Population"
       THEN /\ heap' = Population_deepcopy(heap, 1)
            /\ copy_q' = Len(Population_deepcopy(heap, 1).populations)
       ELSE /\ heap' = Community_deepcopy(heap, 1)
            /\ copy_q' = Len(heap.communities) + 1
    /\ UNCHANGED <<copy_level, copy_original, copy_steps>>
    /\ UNCHANGED notCopy

\* guard and frame of an operation on q or on an object reached from q
CopyStep ==
    /\ copy_kind \in {"copy", "deepcopy"}
    /\ copy_steps < MaxCopySteps
    /\ copy_steps' = copy_steps + 1
    /\ UNCHANGED <<copy_level, copy_kind, copy_q, copy_original>>
    /\ UNCHANGED notCopy

\* ind.genes[0] = v, a gene changed in place
CopySetGene ==
    /\ CopyStep
    /\ \E i \in IndividualsOf(heap, copy_level, copy_q), v \in 1..MaxGene :
          heap' = [heap EXCEPT !.arrays[heap.individuals[i].genes][1] = v]

\* ind.genes = np.array([v])
CopyAssignGenes ==
    /\ CopyStep
    /\ \E i \in IndividualsOf(heap, copy_level, copy_q), v \in 1..MaxGene :
          heap' = [np_array(heap, <<v>>) EXCEPT
                      !.individuals[i].genes = Len(heap.arrays) + 1]

\* ind.fitness = v
CopyAssignFitness ==
    /\ CopyStep
    /\ \E i \in IndividualsOf(heap, copy_level, copy_q), v \in 1..MaxGene :
          heap' = [heap EXCEPT !.individuals[i].fitness = v]

\* ind.hidden_genes[0] = 0, the step size changed in place
CopySetHidden ==
    /\ CopyStep
    /\ \E i \in IndividualsOf(heap, copy_level, copy_q) :
          heap' = [heap EXCEPT
                      !.arrays[heap.individuals[i].hidden_genes][1] = 0]

\* population[k] = Individual(np.array([0]))
CopyReplaceIndividual ==
    /\ CopyStep
    /\ \E x \in PopulationsOf(heap, copy_level, copy_q) :
          \E k \in 1..Len(heap.populations[x]) :
             heap' = [Individual_init(np_array(heap, <<0>>),
                                      Len(heap.arrays) + 1)
                         EXCEPT !.populations[x][k] =
                                    Len(heap.individuals) + 1]

\* population.integrate(Individual(np.array([0])))
CopyIntegrateIndividual ==
    /\ CopyStep
    /\ \E x \in PopulationsOf(heap, copy_level, copy_q) :
          heap' = [Individual_init(np_array(heap, <<0>>),
                                   Len(heap.arrays) + 1)
                      EXCEPT !.populations[x] =
                                 Append(@, Len(heap.individuals) + 1)]

\* community[k] = Population()
CopyReplacePopulation ==
    /\ CopyStep
    /\ copy_level = "Community"
    /\ \E k \in 1..Len(heap.communities[copy_q]) :
          heap' = [Population_init(heap, <<>>) EXCEPT
                      !.communities[copy_q][k] = Len(heap.populations) + 1]

\* community.integrate(Population())
CopyIntegratePopulation ==
    /\ CopyStep
    /\ copy_level = "Community"
    /\ heap' = [Population_init(heap, <<>>) EXCEPT
                   !.communities[copy_q] =
                       Append(@, Len(heap.populations) + 1)]

NextCopy ==
    \/ CopyShallow
    \/ CopyDeep
    \/ CopySetGene
    \/ CopyAssignGenes
    \/ CopyAssignFitness
    \/ CopySetHidden
    \/ CopyReplaceIndividual
    \/ CopyIntegrateIndividual
    \/ CopyReplacePopulation
    \/ CopyIntegratePopulation

SpecCopy == InitCopy /\ [][NextCopy]_vars

\* the objects of class `class` that existed when p was built are as they
\* were then
Untouched(class) ==
    \A k \in 1..Len(copy_original[class]) :
        heap[class][k] = copy_original[class][k]

\* the list of the container c
ListOf(h, level, c) ==
    IF level = "Population" THEN h.populations[c] ELSE h.communities[c]

\* C10: after q = p.deepcopy() no operation on q or on an object reached
\* from q changes a gene, fitness or hidden gene of an individual of p or an
\* element sequence of p; after q = p.copy(), q is another list than p that
\* holds the same objects, and p's own list stays as it was.
C10_DeepcopyIsolates ==
    /\ copy_kind = "deepcopy" =>
          /\ Untouched("arrays")
          /\ Untouched("individuals")
          /\ Untouched("populations")
          /\ Untouched("communities")
    /\ copy_kind = "copy" =>
          /\ ListOf(heap, copy_level, 1) =
                ListOf(copy_original, copy_level, 1)
          /\ copy_steps = 0 =>
                /\ ListOf(heap, copy_level, copy_q) =
                      ListOf(heap, copy_level, 1)
                /\ copy_q # 1

\* a gene of the first individual of the deep copy q was changed in place
\* and now differs from the gene of the first individual of p
C10_Witness ==
    /\ copy_kind = "deepcopy"
    /\ copy_level = "Population"
    /\ copy_steps >= 1
    /\ Len(heap.populations[1]) = 2
    /\ heap.arrays[heap.individuals[heap.populations[copy_q][1]].genes][1]
          # heap.arrays[heap.individuals[heap.populations[1][1]].genes][1]

(***************************************************************************)
(* StrategyProcess.start (peal/core/process.py).  Individuals are records  *)
(* of genes and fitness as in Environment.execute; `populations` and       *)
(* `offspring_populations` are the two lists of start.  A hook that is     *)
(* invoked is logged with the position of its callback in the callbacks    *)
(* list; the population handed to the last hook is kept.                   *)
(***************************************************************************)
\* the signatures the runs are started with, written a/b{+|,}c(d/e{+|,}f)^g
StartParts ==
    [pop : BOOLEAN, a : {1, 2}, b : Opt({2}), popsep : Separators,
     c : {1, 2}, d : {1, 2}, e : {Absent}, indsep : Separators, f : {2},
     g : Opt({2}), wrap : {"plain"}, h : {1}]

\* the genomes the breeder and the mutation produce
StartGenomes == {0, 1}

\* the callbacks list handed to start
Callbacks == <<"first", "second">>

Invoke_mut(log, hook) ==
    log \o [k \in 1..Len(Callbacks) |->
               [hook |-> hook, callback |-> Len(Callbacks) + 1 - k]]

\* for callback in callbacks: callback.<hook>(population)
Invoke(log, hook) ==
    log \o [k \in 1..Len(Callbacks) |-> [hook |-> hook, callback |-> k]]

\* parts = [mu // rho for _ in range(rho)], and the first mu % rho of them
\* one more
mix_parts(mu, rho) ==
    [k \in 1..rho |-> (mu \div rho) + (IF k <= mu % rho THEN 1 ELSE 0)]

\* for j in parts: new_population.populate(populations[i][0:j])
RECURSIVE populate_shares(_, _, _)
populate_shares(population, shares, k) ==
    IF k > Len(shares) THEN <<>>
    ELSE SubSeq(population, 1, Min(shares[k], Len(population)))
             \o populate_shares(population, shares, k + 1)

\* for i in indices: ...; indices are Python positions
RECURSIVE mix_population(_, _, _, _)
mix_population(populations_, indices, shares, k) ==
    IF k > Len(indices) THEN <<>>
    ELSE populate_shares(populations_[indices[k] + 1], shares, 1)
             \o mix_population(populations_, indices, shares, k + 1)

\* populations[i] with i >= len(populations) raises IndexError
mix_raises(populations_, population_parent_indices) ==
    \E n \in 1..Len(population_parent_indices) :
       \E k \in 1..Len(population_parent_indices[n]) :
          population_parent_indices[n][k] >= Len(populations_)

\* Operator.process_all of Best: the batches of StraightIteration(in_size),
\* of each the copies of sorted(...)[:out_size]
RECURSIVE select_best(_, _, _, _)
select_best(population, i, in_size, out_size) ==
    IF i > Len(population) THEN <<>>
    ELSE SubSeq(sorted(StraightBatch(population, i, in_size)), 1,
                Min(out_size, Len(StraightBatch(population, i, in_size))))
             \o select_best(population, i + in_size, in_size, out_size)

RECURSIVE sum_fitness(_)
sum_fitness(population) ==
    IF population = <<>> THEN 0
    ELSE population[Len(population)].fitness + sum_fitness(Front(population))

\* sorted(key=np.mean(population.fitness), reverse=True): an earlier
\* population a stays before x when its mean is not smaller; the means of
\* non-empty populations are compared as fractions
mean_stays_before(a, x) ==
    sum_fitness(a) * Len(x) >= sum_fitness(x) * Len(a)

InsertByMean(s, x) ==
    InsertAt(s, Cardinality({i \in 1..Len(s) : mean_stays_before(s[i], x)}), x)

RECURSIVE sorted_by_mean(_)
sorted_by_mean(populations_) ==
    IF populations_ = <<>> THEN <<>>
    ELSE InsertByMean(sorted_by_mean(Front(populations_)),
                      populations_[Len(populations_)])

max_fitness(population) ==
    CHOOSE m \in {population[k].fitness : k \in 1..Len(population)} :
        \A k \in 1..Len(population) : population[k].fitness <= m

\* the generations a run is started with
InitSp ==
    /\ \E p \in StartParts : \E generations \in 0..MaxStartGenerations :
          sp = StrategyProcess(generations, Write(p))
    /\ sp_pc = "breed"
    /\ sp_populations = <<>>
    /\ sp_offspring = <<>>
    /\ sp_generation = [outer |-> 0, inner |-> 0, i |-> 0]
    /\ sp_hooks = <<>>
    /\ sp_handed = <<>>
    /\ IdleBut("Sp")

\* one round of the loop over range(self._pop_mu): a population of _ind_mu
\* bred individuals is appended, evaluated and handed to on_start
SpBreed ==
    /\ sp_pc = "breed"
    /\ sp.kind = "StrategyProcess"
    /\ Len(sp_populations) < sp._pop_mu
    /\ \E genomes \in [1..sp._ind_mu -> StartGenomes] :
          LET population ==
                  evaluate_population([k \in 1..sp._ind_mu |->
                                          Individual(genomes[k])])
          IN /\ sp_populations' = Append(sp_populations, population)
             /\ sp_handed' = population
    /\ sp_hooks' = Invoke(sp_hooks, "on_start")
    /\ UNCHANGED <<sp, sp_pc, sp_offspring, sp_generation>>
    /\ UNCHANGED notSp

\* the loop over range(self._pop_mu) is over: the first outer generation
SpBred ==
    /\ sp_pc = "breed"
    /\ sp.kind = "StrategyProcess"
    /\ Len(sp_populations) = sp._pop_mu
    /\ sp_pc' = "mix"
    /\ UNCHANGED <<sp, sp_populations, sp_offspring, sp_generation, sp_hooks,
                   sp_handed>>
    /\ UNCHANGED notSp

\* the head of an outer generation: _pop_lambda populations are mixed, each
\* from the _pop_rho populations drawn by randint(0, self._pop_mu)
SpMix ==
    /\ sp_pc = "mix"
    /\ sp_generation.outer < sp.generations
    /\ \E population_parent_indices \in
             [1..sp._pop_lambda -> [1..sp._pop_rho -> 0..(sp._pop_mu - 1)]] :
          IF mix_raises(sp_populations, population_parent_indices)
          THEN /\ sp_pc' = "IndexError"
               /\ UNCHANGED <<sp_offspring, sp_generation>>
          ELSE /\ sp_offspring' =
                      [n \in 1..sp._pop_lambda |->
                          mix_population(sp_populations,
                                         population_parent_indices[n],
                                         mix_parts(sp._ind_mu, sp._pop_rho),
                                         1)]
               /\ sp_pc' = IF sp._ind_gamma = 0 THEN "select" ELSE "evolve"
               /\ sp_generation' = [sp_generation EXCEPT !.inner = 0, !.i = 0]
    /\ UNCHANGED <<sp, sp_populations, sp_hooks, sp_handed>>
    /\ UNCHANGED notSp

\* the counters after the body of the loops over range(self._ind_gamma) and
\* enumerate(offspring_populations) was run once
evolved(counters, gamma, n) ==
    IF counters.i + 1 < n THEN [counters EXCEPT !.i = counters.i + 1]
    ELSE [counters EXCEPT !.inner = counters.inner + 1, !.i = 0]

\* self._selection(offspring): the operator called on a population processes
\* the whole population
Operator_call(population, in_size, out_size) ==
    select_best(population, 1, in_size, out_size)

\* NormalDist(1.0, 0, sigma).process((individual, ))[0]: a new individual
\* with every gene of the genome changed, not yet evaluated
NormalDist_process(genome) == Individual(genome)

\* if self._ind_parents_included: offspring.populate(population)
selection_pool_mut(included, mutated, population) ==
    mutated

selection_pool(included, mutated, population) ==
    IF included THEN mutated \o population ELSE mutated

\* one inner generation of the population offspring_populations[i]: the
\* _ind_lambda offspring are mutated (NormalDist changes every gene) and
\* evaluated, the parents join them when included, Best selects
SpEvolve ==
    /\ sp_pc = "evolve"
    /\ LET population == sp_offspring[sp_generation.i + 1]
       IN \E genomes \in [1..sp._ind_lambda -> StartGenomes] :
                 LET mutated ==
                         evaluate_population([k \in 1..sp._ind_lambda |->
                                         NormalDist_process(genomes[k])])
                     pool == selection_pool(sp._ind_parents_included,
                                            mutated, population)
                     selected == Operator_call(pool, sp._selection.in_size,
                                               sp._selection.out_size)
                 IN /\ sp_offspring' =
                          [sp_offspring EXCEPT ![sp_generation.i + 1] = selected]
                    /\ sp_handed' = selected
                    /\ sp_hooks' = Invoke(Invoke(sp_hooks, "on_generation_start"),
                                          "on_generation_end")
                    /\ sp_generation' = evolved(sp_generation, sp._ind_gamma,
                                                Len(sp_offspring))
                    /\ sp_pc' = IF evolved(sp_generation, sp._ind_gamma,
                                           Len(sp_offspring)).inner
                                      >= sp._ind_gamma
                                THEN "select" ELSE "evolve"
    /\ UNCHANGED <<sp, sp_populations>>
    /\ UNCHANGED notSp

\* the tail of an outer generation: the parent populations join when
\* included, the _pop_mu populations of greatest mean fitness stay
SpSelect ==
    /\ sp_pc = "select"
    /\ sp_populations' =
          LET candidates == IF sp._pop_parents_included
                               THEN sp_offspring \o sp_populations
                               ELSE sp_offspring
          IN SubSeq(sorted_by_mean(candidates), 1,
                    Min(sp._pop_mu, Len(candidates)))
    /\ sp_generation' = [sp_generation EXCEPT !.outer = sp_generation.outer + 1]
    /\ sp_pc' = "mix"
    /\ UNCHANGED <<sp, sp_offspring, sp_hooks, sp_handed>>
    /\ UNCHANGED notSp

\* range(self.generations) is exhausted: start returns None
SpReturn ==
    /\ sp_pc = "mix"
    /\ sp_generation.outer >= sp.generations
    /\ sp_pc' = "returned"
    /\ UNCHANGED <<sp, sp_populations, sp_offspring, sp_generation, sp_hooks,
                   sp_handed>>
    /\ UNCHANGED notSp

NextSp == SpBreed \/ SpBred \/ SpMix \/ SpEvolve \/ SpSelect \/ SpReturn

SpecSp == InitSp /\ [][NextSp]_vars

\* the hook invoked last
LastHook(log) == IF log = <<>> THEN "none" ELSE log[Len(log)].hook

\* a run of (d+f)^g: one population, the parents among the selected
Elitist ==
    /\ sp.kind = "StrategyProcess"
    /\ sp._ind_parents_included
    /\ ~sp._pop_parents_included
    /\ sp._pop_mu = 1 /\ sp._pop_lambda = 1 /\ sp._pop_rho = 1

\* C11: in a run of (d+f)^g the best fitness of the population handed to
\* on_generation_end is never smaller than the best fitness of the
\* population handed to the on_generation_end before it
C11_BestNeverDecreases ==
    [][(/\ Elitist
        /\ LastHook(sp_hooks) = "on_generation_end"
        /\ sp_hooks' # sp_hooks
        /\ LastHook(sp_hooks') = "on_generation_end")
       => max_fitness(sp_handed') >= max_fitness(sp_handed)]_vars

\* a run of (d+f)^2 over two outer generations has returned, and the best
\* fitness reported last is the greatest there is
C11_Witness ==
    /\ Elitist
    /\ sp_pc = "returned"
    /\ sp.generations = 2 /\ sp._ind_gamma = 2
    /\ sp_generation.outer = 2
    /\ LastHook(sp_hooks) = "on_generation_end"
    /\ max_fitness(sp_handed) = 2

(***************************************************************************)
(* The BestWorst callback (peal/core/callback.py).  Individuals are        *)
(* objects with an identity; two of them have the same fitness.  A         *)
(* population is the list of its individuals.                              *)
(***************************************************************************)
\* the individuals that exist and the fitness each one has
TrackedFitness == <<1, 2, 2>>

TrackedIndividuals == 1..Len(TrackedFitness)

RECURSIVE PopulationsOfSize(_)
PopulationsOfSize(n) ==
    IF n = 0 THEN {<<>>}
    ELSE {Append(p, x) : p \in PopulationsOfSize(n - 1), x \in TrackedIndividuals}

TrackedPopulations == UNION {PopulationsOfSize(n) : n \in 0..MaxTracked}

\* max(population, key=lambda ind: ind.fitness): the items are compared in
\* order and a later one replaces the kept one only when its key is greater
RECURSIVE py_max(_)
py_max(population) ==
    IF Len(population) = 1 THEN population[1]
    ELSE LET kept == py_max(Front(population))
             x == population[Len(population)]
         IN IF TrackedFitness[x] > TrackedFitness[kept] THEN x ELSE kept

py_min_mut(kept, x) == TrackedFitness[x] <= TrackedFitness[kept]

\* min replaces the kept item only when the key of a later one is smaller
py_min_replaces(kept, x) == TrackedFitness[x] < TrackedFitness[kept]

RECURSIVE py_min(_)
py_min(population) ==
    IF Len(population) = 1 THEN population[1]
    ELSE IF py_min_replaces(py_min(Front(population)),
                            population[Len(population)])
         THEN population[Len(population)]
         ELSE py_min(Front(population))

\* tracker = BestWorst()
InitBw ==
    /\ bw = [best |-> <<>>, worst |-> <<>>]
    /\ bw_pc = "new"
    /\ bw_calls = <<>>
    /\ bw_steps = 0
    /\ IdleBut("Bw")

\* tracker.on_start(population)
BwOnStart ==
    /\ bw_pc \in {"new", "started"}
    /\ bw_steps < MaxTrackerCalls
    /\ \E population \in TrackedPopulations :
          bw' = [best |-> <<>>, worst |-> <<>>]
    /\ bw_pc' = "started"
    /\ bw_calls' = <<>>
    /\ bw_steps' = bw_steps + 1
    /\ UNCHANGED notBw

\* tracker.on_generation_end(population); max of an empty population raises
BwOnGenerationEnd ==
    /\ bw_pc \in {"new", "started"}
    /\ bw_steps < MaxTrackerCalls
    /\ \E population \in TrackedPopulations :
          IF population = <<>>
          THEN /\ bw_pc' = "ValueError"
               /\ UNCHANGED <<bw, bw_calls>>
          ELSE /\ bw' = [best |-> Append(bw.best, py_max(population)),
                         worst |-> Append(bw.worst, py_min(population))]
               /\ bw_calls' = Append(bw_calls, population)
               /\ UNCHANGED bw_pc
    /\ bw_steps' = bw_steps + 1
    /\ UNCHANGED notBw

NextBw == BwOnStart \/ BwOnGenerationEnd

SpecBw == InitBw /\ [][NextBw]_vars

\* x is the first individual of the population with the greatest fitness
FirstGreatest(population, x) ==
    \E j \in 1..Len(population) :
       /\ population[j] = x
       /\ \A k \in 1..Len(population) :
             /\ TrackedFitness[population[k]] <= TrackedFitness[x]
             /\ k < j => TrackedFitness[population[k]] < TrackedFitness[x]

\* x is the first individual of the population with the least fitness
FirstLeast(population, x) ==
    \E j \in 1..Len(population) :
       /\ population[j] = x
       /\ \A k \in 1..Len(population) :
             /\ TrackedFitness[population[k]] >= TrackedFitness[x]
             /\ k < j => TrackedFitness[population[k]] > TrackedFitness[x]

\* C12: after on_start and n calls of on_generation_end with non-empty
\* populations, best and worst hold n individuals: in the order of the
\* calls, the first individual of greatest and of least fitness of each
\* population; on_start discards what was recorded before it
C12_BestWorstPerCall ==
    bw_pc = "started" =>
       /\ Len(bw.best) = Len(bw_calls)
       /\ Len(bw.worst) = Len(bw_calls)
       /\ \A i \in 1..Len(bw_calls) :
             /\ FirstGreatest(bw_calls[i], bw.best[i])
             /\ FirstLeast(bw_calls[i], bw.worst[i])

\* two populations were recorded after on_start; in the second the two
\* individuals of equal fitness are both the least and both the greatest
C12_Witness ==
    /\ bw_pc = "started"
    /\ Len(bw_calls) = 2
    /\ bw_calls[1] = <<1, 2>>
    /\ bw_calls[2] = <<3, 2>>
    /\ bw.worst = <<1, 3>>
    /\ bw.best = <<2, 3>>

(***************************************************************************)
(* SynchronousProcess.start (peal/core/process.py).  The operators of the  *)
(* process are its arguments: what selection, reproduction, integration    *)
(* and mutation hand back is any population of individuals that are not   *)
(* evaluated yet.                                                          *)
(***************************************************************************)
\* the population left by the operators of one generation
Operators_process(genomes) ==
    [k \in 1..Len(genomes) |-> Individual(genomes[k])]

\* process = SynchronousProcess(breeder, fitness, init_size, generations, ...)
InitSyn ==
    /\ syn \in [init_size : 1..MaxInitSize, generations : 0..MaxRunGenerations]
    /\ syn_pc = "start"
    /\ syn_population = <<>>
    /\ syn_generation = 0
    /\ syn_hooks = <<>>
    /\ syn_handed = <<>>
    /\ IdleBut("Syn")

\* the population is bred, evaluated and handed to on_start
SynBreed ==
    /\ syn_pc = "start"
    /\ \E genomes \in [1..syn.init_size -> StartGenomes] :
          /\ syn_population' =
                evaluate_population([k \in 1..syn.init_size |->
                                        Individual(genomes[k])])
          /\ syn_handed' =
                evaluate_population([k \in 1..syn.init_size |->
                                        Individual(genomes[k])])
    /\ syn_hooks' = Invoke(syn_hooks, "on_start")
    /\ syn_pc' = "generations"
    /\ UNCHANGED <<syn, syn_generation>>
    /\ UNCHANGED notSyn

\* one round of the loop over range(self.generations)
SynGeneration ==
    /\ syn_pc = "generations"
    /\ syn_generation < syn.generations
    /\ \E n \in 1..syn.init_size : \E genomes \in [1..n -> StartGenomes] :
          /\ syn_population' = evaluate_population(Operators_process(genomes))
          /\ syn_handed' = evaluate_population(Operators_process(genomes))
    /\ syn_hooks' = Invoke(Invoke(syn_hooks, "on_generation_start"),
                           "on_generation_end")
    /\ syn_generation' = syn_generation + 1
    /\ UNCHANGED <<syn, syn_pc>>
    /\ UNCHANGED notSyn

\* the loop is exhausted: on_end, and start returns
SynEnd ==
    /\ syn_pc = "generations"
    /\ syn_generation >= syn.generations
    /\ syn_hooks' = Invoke(syn_hooks, "on_end")
    /\ syn_handed' = syn_population
    /\ syn_pc' = "returned"
    /\ UNCHANGED <<syn, syn_population, syn_generation>>
    /\ UNCHANGED notSyn

NextSyn == SynBreed \/ SynGeneration \/ SynEnd

SpecSyn == InitSyn /\ [][NextSyn]_vars

(***************************************************************************)
(* The runs of the three drivers: Environment.execute,                     *)
(* SynchronousProcess.start and StrategyProcess.start.                     *)
(***************************************************************************)
InitRuns == Init \/ InitSyn \/ InitSp

NextRuns == Next \/ NextSyn \/ NextSp

SpecRuns == InitRuns /\ [][NextRuns]_vars

\* every hook went to the callbacks one after the other in list order
InListOrder(log) ==
    /\ Len(log) % Len(Callbacks) = 0
    /\ \A i \in 1..Len(log) :
          /\ log[i].callback = ((i - 1) % Len(Callbacks)) + 1
          /\ log[i].hook = log[i - ((i - 1) % Len(Callbacks))].hook

\* the hooks invoked, one entry for all callbacks
Rounds(log) ==
    [r \in 1..(Len(log) \div Len(Callbacks)) |->
        log[(r - 1) * Len(Callbacks) + 1].hook]

HookNames(log) == [r \in 1..Len(log) |-> log[r].hook]

\* on_start came `initial` times and before the generations; every
\* on_generation_start is directly followed by its on_generation_end
ProtocolOrder(names, initial) ==
    /\ Cardinality({r \in 1..Len(names) : names[r] = "on_start"}) = initial
    /\ \A r \in 1..Len(names) :
          /\ names[r] = "on_start" =>
                \A q \in 1..r : names[q] = "on_start"
          /\ names[r] = "on_generation_start" =>
                r < Len(names) /\ names[r + 1] = "on_generation_end"
          /\ names[r] = "on_generation_end" =>
                r > 1 /\ names[r - 1] = "on_generation_start"

\* fitness.evaluate has reached every individual
Evaluated(population) ==
    \A k \in 1..Len(population) :
       population[k].fitness = method(population[k])

\* C13: on_start is invoked once for each initial population and before any
\* on_generation_start; each on_generation_start is followed by exactly one
\* on_generation_end before the next one; on_generation_end is handed the
\* evaluated population the generation resulted in; every hook goes to the
\* callbacks in the order of the list
C13_HooksInProtocolOrder ==
    /\ ProtocolOrder(HookNames(hooks),
                     IF env_pc = "breed" THEN Len(populations)
                     ELSE community_strategy.init_size)
    /\ InListOrder(syn_hooks)
    /\ ProtocolOrder(Rounds(syn_hooks), IF syn_pc \in {"idle", "start"} THEN 0 ELSE 1)
    /\ LastHook(syn_hooks) = "on_generation_end" =>
          syn_handed = syn_population /\ Evaluated(syn_handed)
    /\ InListOrder(sp_hooks)
    /\ sp.kind = "StrategyProcess" =>
          ProtocolOrder(Rounds(sp_hooks),
                        IF sp_pc = "breed" THEN Len(sp_populations)
                        ELSE sp._pop_mu)
    /\ (/\ LastHook(sp_hooks) = "on_generation_end"
        /\ \/ sp_pc = "select"
           \/ sp_pc = "evolve" /\ (sp_generation.inner > 0 \/ sp_generation.i > 0)) =>
          /\ \E i \in 1..Len(sp_offspring) : sp_handed = sp_offspring[i]
          /\ Evaluated(sp_handed)

\* a SynchronousProcess has returned after two generations
C13_Witness ==
    /\ syn_pc = "returned"
    /\ syn_generation = 2
    /\ Len(syn_hooks) = 6 * Len(Callbacks)
    /\ Rounds(syn_hooks)[4] = "on_generation_start"
    /\ Rounds(syn_hooks)[5] = "on_generation_end"

\* on_end was invoked once, after every other hook
EndsWithOnEnd(names) ==
    /\ Cardinality({r \in 1..Len(names) : names[r] = "on_end"}) = 1
    /\ names[Len(names)] = "on_end"

\* C14: every run that completes - Environment.execute,
\* SynchronousProcess.start, StrategyProcess.start - has invoked on_end on
\* each callback exactly once, after the last on_generation_end, with the
\* final population
C14_OnEndOnce ==
    /\ env_pc = "done" => EndsWithOnEnd(HookNames(hooks))
    /\ syn_pc = "returned" =>
          /\ InListOrder(syn_hooks)
          /\ EndsWithOnEnd(Rounds(syn_hooks))
          /\ syn_handed = syn_population
    /\ sp_pc = "returned" =>
          /\ InListOrder(sp_hooks)
          /\ EndsWithOnEnd(Rounds(sp_hooks))
          /\ \E i \in 1..Len(sp_populations) : sp_handed = sp_populations[i]

\* of the three, SynchronousProcess.start does invoke on_end
SynEndsWithOnEnd ==
    syn_pc = "returned" =>
       /\ InListOrder(syn_hooks)
       /\ EndsWithOnEnd(Rounds(syn_hooks))
       /\ syn_handed = syn_population

(***************************************************************************)
(* Fitness.evaluate (peal/fitness.py) called on its own: on an Individual, *)
(* a Population, a Community, or an object of another type (a list of      *)
(* individuals).                                                           *)
(***************************************************************************)
RECURSIVE ListsOf(_, _)
ListsOf(S, n) ==
    IF n = 0 THEN {<<>>}
    ELSE ListsOf(S, n - 1) \cup
         {Append(l, x) : l \in {q \in ListsOf(S, n - 1) : Len(q) = n - 1}, x \in S}

Unevaluated == {Individual(genes) : genes \in Genomes}

\* the objects evaluate is called with, by type
Evaluable(type) ==
    IF type = "Individual" THEN Unevaluated
    ELSE IF type = "Community"
    THEN ListsOf(ListsOf(Unevaluated, MaxInitSize), MaxInitSize)
    ELSE ListsOf(Unevaluated, MaxInitSize)

InitFit ==
    /\ fit_type \in {"Individual", "Population", "Community", "list"}
    /\ fit_objects \in Evaluable(fit_type)
    /\ fit_before = fit_objects
    /\ fit_pc = "ready"
    /\ IdleBut("Fit")

\* fitness.evaluate(objects)
FitEvaluate ==
    /\ fit_pc = "ready"
    /\ fit_objects' = evaluate(fit_type, fit_objects).objects
    /\ fit_pc' = IF evaluate(fit_type, fit_objects).raised = "none"
                 THEN "returned" ELSE evaluate(fit_type, fit_objects).raised
    /\ UNCHANGED <<fit_type, fit_before>>
    /\ UNCHANGED notFit

NextFit == FitEvaluate

SpecFit == InitFit /\ [][NextFit]_vars

\* the individuals contained in an object of the type
IndividualsIn(type, objects) ==
    IF type = "Individual" THEN {objects}
    ELSE IF type = "Community"
    THEN UNION {{objects[p][k] : k \in 1..Len(objects[p])} : p \in 1..Len(objects)}
    ELSE {objects[k] : k \in 1..Len(objects)}

\* C15: evaluate assigns method(ind) to every individual contained in an
\* Individual, a Population or a Community and returns normally; it raises
\* TypeError when and only when the object is of another type, and then no
\* fitness is changed
C15_EvaluateByType ==
    fit_pc \notin {"idle", "ready"} =>
       /\ fit_type \in {"Individual", "Population", "Community"} =>
             /\ fit_pc = "returned"
             /\ \A x \in IndividualsIn(fit_type, fit_objects) :
                   x.fitness = method(x)
       /\ fit_pc = "TypeError" <=>
             fit_type \notin {"Individual", "Population", "Community"}
       /\ fit_pc = "TypeError" => fit_objects = fit_before

\* on an Individual, a Population and an object of another type evaluate
\* does what the claim says
EvaluateButCommunity ==
    (fit_pc \notin {"idle", "ready"} /\ fit_type # "Community") =>
       /\ fit_type \in {"Individual", "Population"} =>
             /\ fit_pc = "returned"
             /\ \A x \in IndividualsIn(fit_type, fit_objects) :
                   x.fitness = method(x)
       /\ fit_pc = "TypeError" <=> fit_type \notin {"Individual", "Population"}
       /\ fit_pc = "TypeError" => fit_objects = fit_before

(***************************************************************************)
(* StraightIteration (peal/operators/iteration.py) over a container of n   *)
(* elements: for i in range(0, container.size, batch_size).                *)
(***************************************************************************)
InitStr ==
    /\ str_size \in 0..MaxOpSize
    /\ \E n \in 0..MaxContainer : str_container = [k \in 1..n |-> k]
    /\ str_pc = "iterating"
    /\ str_i = 0
    /\ str_batches = <<>>
    /\ IdleBut("Str")

\* the range cannot be built
StrRaise ==
    /\ str_pc = "iterating"
    /\ range_raises(str_size)
    /\ str_pc' = "ValueError"
    /\ UNCHANGED <<str_size, str_container, str_i, str_batches>>
    /\ UNCHANGED notStr

\* one round of the loop: yield container[i:i+batch_size]
StrYield ==
    /\ str_pc = "iterating"
    /\ ~range_raises(str_size)
    /\ str_i < Len(str_container)
    /\ str_batches' =
          Append(str_batches, StraightBatch(str_container, str_i + 1, str_size))
    /\ str_i' = str_i + str_size
    /\ UNCHANGED <<str_size, str_container, str_pc>>
    /\ UNCHANGED notStr

\* the range is exhausted: the iterator stops
StrStop ==
    /\ str_pc = "iterating"
    /\ ~range_raises(str_size)
    /\ str_i >= Len(str_container)
    /\ str_pc' = "exhausted"
    /\ UNCHANGED <<str_size, str_container, str_i, str_batches>>
    /\ UNCHANGED notStr

NextStr == StrRaise \/ StrYield \/ StrStop

SpecStr == InitStr /\ [][NextStr]_vars

\* the iterations of StraightIteration and of NRandomBatchesIteration
InitIterations == InitStr \/ InitIter

NextIterations == NextStr \/ NextIter

SpecIterations == InitIterations /\ [][NextIterations]_vars

\* C16: iterating a container of n elements with a batch size b > n, with
\* StraightIteration or with NRandomBatchesIteration, yields no batch and
\* does not end normally but in a runtime error
C16_BatchLargerThanContainerRaises ==
    /\ str_size > Len(str_container) =>
          /\ str_batches = <<>>
          /\ str_pc # "exhausted"
    /\ iter.batch_size > Len(iter_container) =>
          /\ iter_count = 0
          /\ iter_pc # "exhausted"

\* NRandomBatchesIteration raises as soon as it draws a batch of more
\* elements than the container has, and has yielded no batch
RandomBatchLargerRaises ==
    (iter.batch_size > Len(iter_container) /\ iter_total(iter, iter_container) > 0)
       => /\ iter_count = 0
          /\ iter_pc # "exhausted"

\* C17: in a strategy run every population handed to on_generation_end
\* holds exactly d individuals, the individual parent count, whatever the
\* signature and the mixing proportions
C17_ParentCountAtGenerationEnd ==
    (sp.kind = "StrategyProcess" /\ LastHook(sp_hooks) = "on_generation_end")
       => Len(sp_handed) = sp._ind_mu

\* with populations mixed from one parent population each it does
ParentCountUnlessMixed ==
    (/\ sp.kind = "StrategyProcess"
     /\ LastHook(sp_hooks) = "on_generation_end"
     /\ sp._pop_rho = 1)
       => Len(sp_handed) = sp._ind_mu

\* C18: after every outer generation there are exactly a populations, the
\* population parent count, and so at the start of every outer generation:
\* mixing never refers to a population that does not exist
C18_ParentPopulationCount ==
    /\ (sp.kind = "StrategyProcess" /\ sp_pc \in {"mix", "returned"}) =>
          Len(sp_populations) = sp._pop_mu
    /\ sp_pc # "IndexError"

\* it is so when the populations selected from are at least a
PopulationCountWhenEnough ==
    (/\ sp.kind = "StrategyProcess"
     /\ sp._pop_parents_included \/ sp._pop_lambda >= sp._pop_mu)
       => /\ sp_pc \in {"mix", "returned"} => Len(sp_populations) = sp._pop_mu
          /\ sp_pc # "IndexError"

(***************************************************************************)
(* EquiMix._process_community (peal/operators/clash.py) on a community of  *)
(* in_size populations of n individuals each; individual k of population p *)
(* is <<p, k>>, and a deep copy of it is its equal.                        *)
(***************************************************************************)
InitEq ==
    /\ eq \in [in_size : 1..MaxInitSize, out_size : 1..MaxInitSize,
               group_size : 1..MaxInitSize]
    /\ \E n \in 1..MaxInitSize :
          eq_container = [p \in 1..eq.in_size |-> [k \in 1..n |-> <<p, k>>]]
    /\ eq_result = <<>>
    /\ eq_pc = "ready"
    /\ IdleBut("Eq")

\* out_size new populations, each from the group_size populations drawn by
\* randint(0, container.size)
EqProcess ==
    /\ eq_pc = "ready"
    /\ \E population_parent_indices \in
             [1..eq.out_size -> [1..eq.group_size -> 0..(Len(eq_container) - 1)]] :
          eq_result' =
             [n \in 1..eq.out_size |->
                 mix_population(eq_container, population_parent_indices[n],
                                mix_parts(Len(eq_container[1]), eq.group_size),
                                1)]
    /\ eq_pc' = "returned"
    /\ UNCHANGED <<eq, eq_container>>
    /\ UNCHANGED notEq

NextEq == EqProcess

SpecEq == InitEq /\ [][NextEq]_vars

\* population mixing: by EquiMix and by the mixing step of a strategy run
InitMixing == InitEq \/ InitSp

NextMixing == NextEq \/ NextSp

SpecMixing == InitMixing /\ [][NextMixing]_vars

\* number of individuals in the shares before share k
RECURSIVE SharesBefore(_, _)
SharesBefore(shares, k) ==
    IF k = 1 THEN 0 ELSE SharesBefore(shares, k - 1) + shares[k - 1]

\* the new population has n individuals in rho shares of n div rho
\* individuals, the first n mod rho of one more, each share taken from one
\* chosen parent population
WellMixed(new, parents, n, rho) ==
    /\ Len(new) = n
    /\ \E chosen \in [1..rho -> 1..Len(parents)] :
          \A k \in 1..rho :
             \A j \in 1..mix_parts(n, rho)[k] :
                \E q \in 1..Len(parents[chosen[k]]) :
                   new[SharesBefore(mix_parts(n, rho), k) + j]
                      = parents[chosen[k]][q]

\* the populations of a strategy run were mixed and none has evolved yet
FreshlyMixed ==
    /\ sp_pc = "evolve"
    /\ sp_generation.inner = 0 /\ sp_generation.i = 0

\* C19: mixing with group size rho, applied to populations of n individuals
\* each, creates out_size new populations of exactly n individuals: rho
\* shares, one from each chosen parent population, of n div rho individuals
\* and the first n mod rho of them of one more
C19_MixedPopulationsOfN ==
    /\ eq_pc = "returned" =>
          /\ Len(eq_result) = eq.out_size
          /\ \A p \in 1..Len(eq_result) :
                WellMixed(eq_result[p], eq_container, Len(eq_container[1]),
                          eq.group_size)
    /\ (/\ FreshlyMixed
        /\ \A p \in 1..Len(sp_populations) : Len(sp_populations[p]) = sp._ind_mu)
       => /\ Len(sp_offspring) = sp._pop_lambda
          /\ \A p \in 1..Len(sp_offspring) :
                WellMixed(sp_offspring[p], sp_populations, sp._ind_mu,
                          sp._pop_rho)

\* a group of one population is mixed as the claim says
MixedFromOne ==
    /\ (eq_pc = "returned" /\ eq.group_size = 1) =>
          /\ Len(eq_result) = eq.out_size
          /\ \A p \in 1..Len(eq_result) :
                WellMixed(eq_result[p], eq_container, Len(eq_container[1]), 1)
    /\ (/\ FreshlyMixed
        /\ sp._pop_rho = 1
        /\ \A p \in 1..Len(sp_populations) : Len(sp_populations[p]) = sp._ind_mu)
       => /\ Len(sp_offspring) = sp._pop_lambda
          /\ \A p \in 1..Len(sp_offspring) :
                WellMixed(sp_offspring[p], sp_populations, sp._ind_mu, 1)

\* every mixed population has rho * n individuals
MixedTimesRho ==
    /\ eq_pc = "returned" =>
          \A p \in 1..Len(eq_result) :
             Len(eq_result[p]) = eq.group_size * Len(eq_container[1])
    /\ (/\ FreshlyMixed
        /\ \A p \in 1..Len(sp_populations) : Len(sp_populations[p]) = sp._ind_mu)
       => \A p \in 1..Len(sp_offspring) :
             Len(sp_offspring[p]) = sp._pop_rho * sp._ind_mu

\* Crossover is through: it returned, raised, or got no batch
CrossDone == cross_pc \in {"returned", "ValueError", "skipped"}

\* the two offspring are the two parents, gene by gene
UnmodifiedCopies ==
    /\ cross_pc = "returned"
    /\ cross_offspring = cross_parents

\* two offspring were returned after the exchange between the cut points
Exchanged ==
    /\ cross_pc = "returned"
    /\ cross_points # None
    /\ Len(cross_offspring) = 2

\* C20: Crossover produces two offspring from two parents; with the uniform
\* draw r it exchanges genes when r is within `probability` (always for
\* probability 1.0), and otherwise (never for probability 0 and r > 0), and
\* always for npoints = 0, it returns unmodified copies of the parents
C20_ProbabilityDecidesExchange ==
    (CrossDone /\ cross_draw # None) =>
       /\ Len(cross_offspring) = 2
       /\ cross.npoints = 0 => UnmodifiedCopies
       /\ (cross.npoints > 0 /\ cross_draw[1] < cross.probability) => Exchanged
       /\ cross_draw[1] > cross.probability => UnmodifiedCopies

\* Crossover of peal/operations/reproduction.py with one cut point or more
\* exchanges when the draw is within the probability
IteratedExchangesWithin ==
    (/\ CrossDone
     /\ cross.version = "population"
     /\ cross.npoints > 0
     /\ cross_draw[1] < cross.probability) => Exchanged

\* the boundaries are 0 = c0 < c1 < ... < cn < c(n+1) = L
StrictBoundaries(points, n, L) ==
    /\ Len(points) = n + 2
    /\ points[1] = 0
    /\ points[n + 2] = L
    /\ \A k \in 1..(n + 1) : points[k] < points[k + 1]

\* index i of the segment [c_i, c_(i+1)) that holds the gene position g
SegmentOf(points, g) ==
    Cardinality({k \in 2..Len(points) : points[k] <= g})

\* C21: when Crossover exchanges with npoints = n on genomes of length L,
\* its boundaries are strictly increasing from 0 to L, and exactly the
\* segments whose index is congruent to n modulo 2 are exchanged between
\* the two offspring
C21_AlternatingSegments ==
    (cross_pc = "returned" /\ cross_points # None) =>
       /\ StrictBoundaries(cross_points, cross.npoints, Len(cross_parents[1]))
       /\ \A g \in 1..Len(cross_parents[1]) :
             IF SegmentOf(cross_points, g - 1) % 2 = cross.npoints % 2
             THEN /\ cross_offspring[1][g] = cross_parents[2][g]
                  /\ cross_offspring[2][g] = cross_parents[1][g]
             ELSE /\ cross_offspring[1][g] = cross_parents[1][g]
                  /\ cross_offspring[2][g] = cross_parents[2][g]

\* with one cut point the loop over the segments is empty: the offspring
\* are the parents
OnePointExchangesNothing ==
    (cross_pc = "returned" /\ cross_points # None /\ cross.npoints = 1) =>
       cross_offspring = cross_parents

(***************************************************************************)
(* Crowded integration of (offspring, parents): Crowded._process_community *)
(* (peal/operators/integration.py), Crowded._process                       *)
(* (peal/operations/integration.py) and CrowdedIntegration.merge           *)
(* (peal/core/integration.py).  A population is the list of its            *)
(* individuals; parent j is [kind "parent", id j], the copy of offspring k  *)
(* is [kind "copy", id k], each with its genes.                            *)
(***************************************************************************)
CrowdGenomes == [1..2 -> Alleles]

\* np.sum(a.genes == b.genes)
equal_genes(a, b) == Cardinality({g \in 1..Len(a) : a[g] = b[g]})

\* the comparison that makes a sampled index the new best
crowd_better(version, dist, best_distance) ==
    IF version = "core" THEN dist < best_distance ELSE dist > best_distance

\* best after the loop `for index in compare` has seen the first k samples
RECURSIVE crowd_best_of(_, _, _, _, _)
crowd_best_of(version, parents, off, compare, k) ==
    IF k = 0 THEN compare[1]
    ELSE IF crowd_better(version,
                         equal_genes(parents[compare[k] + 1], off),
                         equal_genes(parents[crowd_best_of(version, parents, off,
                                                           compare, k - 1) + 1],
                                     off))
         THEN compare[k]
         ELSE crowd_best_of(version, parents, off, compare, k - 1)

InitCrowd ==
    /\ crowd \in [version : {"operators", "operations", "core"},
                  cf : 1..MaxCrowdParents]
    /\ \E n \in 1..MaxCrowdParents : crowd_parents \in [1..n -> CrowdGenomes]
    /\ \E n \in 1..MaxCrowdOffspring : crowd_offspring \in [1..n -> CrowdGenomes]
    /\ crowd_merged = <<>>
    /\ crowd_done = 0
    /\ crowd_compare = <<>>
    /\ crowd_best = 0
    /\ crowd_pc = "ready"
    /\ IdleBut("Crowd")

\* merged = parents.copy()
CrowdCopy ==
    /\ crowd_pc = "ready"
    /\ crowd_merged' = [j \in 1..Len(crowd_parents) |->
                           [kind |-> "parent", id |-> j, genes |-> crowd_parents[j]]]
    /\ crowd_pc' = "merging"
    /\ UNCHANGED <<crowd, crowd_parents, crowd_offspring, crowd_done,
                   crowd_compare, crowd_best>>
    /\ UNCHANGED notCrowd

\* one round of `for off in offspring`
CrowdIntegrate ==
    /\ crowd_pc = "merging"
    /\ crowd_done < Len(crowd_offspring)
    /\ IF choice_raises(Len(crowd_parents), crowd.cf)
       THEN /\ crowd_pc' = "ValueError"
            /\ UNCHANGED <<crowd_merged, crowd_done, crowd_compare, crowd_best>>
       ELSE /\ \E compare \in choice(Len(crowd_parents), crowd.cf) :
                 /\ crowd_compare' = compare
                 /\ crowd_best' =
                       crowd_best_of(crowd.version, crowd_parents,
                                     crowd_offspring[crowd_done + 1], compare,
                                     Len(compare))
                 /\ crowd_merged' =
                       [crowd_merged EXCEPT
                          ![crowd_best_of(crowd.version, crowd_parents,
                                          crowd_offspring[crowd_done + 1],
                                          compare, Len(compare)) + 1] =
                             [kind |-> "copy", id |-> crowd_done + 1,
                              genes |-> crowd_offspring[crowd_done + 1]]]
            /\ crowd_done' = crowd_done + 1
            /\ UNCHANGED crowd_pc
    /\ UNCHANGED <<crowd, crowd_parents, crowd_offspring>>
    /\ UNCHANGED notCrowd

\* the loop is over: merged is returned
CrowdReturn ==
    /\ crowd_pc = "merging"
    /\ crowd_done >= Len(crowd_offspring)
    /\ crowd_pc' = "returned"
    /\ UNCHANGED <<crowd, crowd_parents, crowd_offspring, crowd_merged,
                   crowd_done, crowd_compare, crowd_best>>
    /\ UNCHANGED notCrowd

NextCrowd == CrowdCopy \/ CrowdIntegrate \/ CrowdReturn

SpecCrowd == InitCrowd /\ [][NextCrowd]_vars

\* position k of the sample is the first one whose parent has the most gene
\* positions equal to the offspring's
FirstMostEqual(parents, off, compare, k) ==
    \A q \in 1..Len(compare) :
       /\ equal_genes(parents[compare[q] + 1], off)
             <= equal_genes(parents[compare[k] + 1], off)
       /\ q < k => equal_genes(parents[compare[q] + 1], off)
                      < equal_genes(parents[compare[k] + 1], off)

\* C22: for each offspring crowding_factor pairwise different parent
\* positions are sampled, and the copy of the offspring replaces, in the
\* merged population, the sampled position whose parent has the most gene
\* positions equal to the offspring's (the first sampled one on ties); the
\* merged population is as large as the parent population
C22_ReplacesMostSimilar ==
    (crowd_pc \in {"merging", "returned"} /\ crowd_done > 0) =>
       /\ Len(crowd_compare) = crowd.cf
       /\ \A q, r \in 1..Len(crowd_compare) :
             q # r => crowd_compare[q] # crowd_compare[r]
       /\ \E k \in 1..Len(crowd_compare) :
             /\ crowd_compare[k] = crowd_best
             /\ FirstMostEqual(crowd_parents, crowd_offspring[crowd_done],
                               crowd_compare, k)
       /\ crowd_merged[crowd_best + 1] =
             [kind |-> "copy", id |-> crowd_done,
              genes |-> crowd_offspring[crowd_done]]
       /\ Len(crowd_merged) = Len(crowd_parents)

\* Crowded of peal/operators and of peal/operations does what C22 says
CrowdedReplacesMostSimilar ==
    (crowd.version # "core") => C22_ReplacesMostSimilar

\* the copies of the offspring held by merged
CopiesIn(merged) == {merged[p].id : p \in {q \in 1..Len(merged) : merged[q].kind = "copy"}}

\* C27: an offspring inserted earlier in the same crowded integration is
\* never overwritten by a later one: with k <= |parents| offspring the
\* returned population holds copies of all k offspring and exactly
\* |parents| - k of the original parents
C27_NoOffspringOverwritten ==
    (crowd_pc = "returned" /\ Len(crowd_offspring) <= Len(crowd_parents)) =>
       /\ CopiesIn(crowd_merged) = 1..Len(crowd_offspring)
       /\ Cardinality({p \in 1..Len(crowd_merged) : crowd_merged[p].kind = "parent"})
             = Len(crowd_parents) - Len(crowd_offspring)

\* what a crowded integration does keep: every position of merged holds
\* the parent of that position or the copy of an offspring, and the copy of
\* the offspring integrated last is among them
MergedOfParentsAndCopies ==
    (crowd_pc \in {"merging", "returned"}) =>
       /\ Len(crowd_merged) = Len(crowd_parents)
       /\ \A p \in 1..Len(crowd_merged) :
             \/ crowd_merged[p] = [kind |-> "parent", id |-> p,
                                   genes |-> crowd_parents[p]]
             \/ /\ crowd_merged[p].kind = "copy"
                /\ crowd_merged[p].id \in 1..crowd_done
                /\ crowd_merged[p].genes = crowd_offspring[crowd_merged[p].id]
       /\ crowd_done > 0 => crowd_done \in CopiesIn(crowd_merged)

(***************************************************************************)
(* Integration that takes the first population first:                      *)
(* FirstThingsFirst._process_community (peal/operators/integration.py,     *)
(* the same code as FirstThingsFirst._process of                           *)
(* peal/operations/integration.py) and OffspringFirstIntegration.merge     *)
(* (peal/core/integration.py).  An individual is [pop, pos, copied]: the   *)
(* population it came from, its position there, and whether it is a copy   *)
(* made by the operator.                                                   *)
(***************************************************************************)
MergePopulation(p, n) == [k \in 1..n |-> [pop |-> p, pos |-> k, copied |-> FALSE]]

\* population[:n] for n >= 0
upto(population, n) ==
    SubSeq(population, 1, IF n < Len(population) THEN n ELSE Len(population))

\* Population.deepcopy: a population of copies
deepcopy(population) ==
    [k \in 1..Len(population) |-> [population[k] EXCEPT !.copied = TRUE]]

\* req_size of FirstThingsFirst
req_size_mut(size, pop1, pop2) ==
    IF size = -1 THEN Len(pop1) ELSE IF size = -2 THEN Len(pop2) ELSE size
req_size(size, pop1, pop2) ==
    IF size = -1 THEN Len(pop2) ELSE IF size = -2 THEN Len(pop1) ELSE size

FirstThingsFirst_raises(size, pop1, pop2) ==
    size # -1 /\ size # -2 /\ size > Len(pop1) + Len(pop2)

\* the population of the community FirstThingsFirst returns
FirstThingsFirst_process(size, pop1, pop2) ==
    IF Len(pop1) >= req_size(size, pop1, pop2)
    THEN upto(pop1, req_size(size, pop1, pop2))
    ELSE deepcopy(pop1)
            \o deepcopy(upto(pop2, req_size(size, pop1, pop2) - Len(pop1)))

\* merged after i rounds of `for i in range(parents.size - offspring.size)`
RECURSIVE populate_parents(_, _, _)
populate_parents(merged, parents, i) ==
    IF i = 0 THEN merged
    ELSE Append(populate_parents(merged, parents, i - 1), parents[i])

\* OffspringFirstIntegration.merge
OffspringFirst_merge(offspring_, parents) ==
    IF Len(offspring_) >= Len(parents)
    THEN upto(offspring_, Len(parents))
    ELSE populate_parents(offspring_, parents, Len(parents) - Len(offspring_))

MergeSizes == {-2, -1} \cup (1..(2 * MaxMergeSize + 1))

InitFtf ==
    /\ \/ ftf \in [version : {"operators"}, size : MergeSizes]
       \/ ftf = [version |-> "core", size |-> -1]
    /\ \E n \in 0..MaxMergeSize : ftf_first = MergePopulation(1, n)
    /\ \E n \in 0..MaxMergeSize : ftf_second = MergePopulation(2, n)
    /\ ftf_result = <<>>
    /\ ftf_pc = "ready"
    /\ IdleBut("Ftf")

\* FirstThingsFirst._process_community on the community (first, second)
FtfProcess ==
    /\ ftf_pc = "ready"
    /\ ftf.version = "operators"
    /\ IF FirstThingsFirst_raises(ftf.size, ftf_first, ftf_second)
       THEN /\ ftf_pc' = "RuntimeError"
            /\ UNCHANGED ftf_result
       ELSE /\ ftf_result' = FirstThingsFirst_process(ftf.size, ftf_first, ftf_second)
            /\ ftf_pc' = "returned"
    /\ UNCHANGED <<ftf, ftf_first, ftf_second>>
    /\ UNCHANGED notFtf

\* OffspringFirstIntegration.merge(first, second)
FtfMerge ==
    /\ ftf_pc = "ready"
    /\ ftf.version = "core"
    /\ ftf_result' = OffspringFirst_merge(ftf_first, ftf_second)
    /\ ftf_pc' = "returned"
    /\ UNCHANGED <<ftf, ftf_first, ftf_second>>
    /\ UNCHANGED notFtf

NextFtf == FtfProcess \/ FtfMerge

SpecFtf == InitFtf /\ [][NextFtf]_vars

\* the target size s of the claim
TargetSize ==
    IF ftf.size = -1 THEN Len(ftf_second)
    ELSE IF ftf.size = -2 THEN Len(ftf_first) ELSE ftf.size

\* where the individual at position k of the result comes from
OriginOf(k) == <<ftf_result[k].pop, ftf_result[k].pos>>

\* C23: integrating (first, second) with target size s <= |first| + |second|
\* returns exactly s individuals, the first min(s, |first|) of the first
\* population in their order followed by the first s - |first| of the
\* second in their order; a positive size greater than |first| + |second|
\* raises RuntimeError
C23_FirstThenSecond ==
    (ftf_pc # "ready" /\ ftf_pc # "idle") =>
       IF TargetSize <= Len(ftf_first) + Len(ftf_second)
       THEN /\ ftf_pc = "returned"
            /\ Len(ftf_result) = TargetSize
            /\ \A k \in 1..Len(ftf_result) :
                  OriginOf(k) = IF k <= Len(ftf_first)
                                THEN <<1, k>> ELSE <<2, k - Len(ftf_first)>>
       ELSE ftf_pc = "RuntimeError"

\* a merge that had to take individuals of both populations
C23_Witness ==
    /\ ftf_pc = "returned"
    /\ ftf.size = -1
    /\ Len(ftf_first) = 1
    /\ Len(ftf_result) = 2
    /\ OriginOf(2) = <<2, 1>>

(***************************************************************************)
(* Tournament selection: Tournament of peal/operators/selection.py (run by *)
(* Operator.process, peal/operators/operator.py) and of                    *)
(* peal/operations/selection.py (run by Operator.process_all), both with   *)
(* NRandomBatchesIteration(batch_size=size).  The population is the list   *)
(* of the fitness values of its individuals; a selected individual is      *)
(* [pos, copied]: the position of its original and whether it is a copy.   *)
(***************************************************************************)
TournamentFitness == {1, 2}

\* the comparison of max(..., key=lambda x: x.fitness): a later member
\* replaces the kept one only when its fitness is greater
max_replaces_mut(kept, x) == x < kept
max_replaces(kept, x) == x > kept

\* max(batch, key=lambda x: x.fitness) over the first k members of the
\* batch, as the 0-based index of the member in the population
RECURSIVE max_of_batch(_, _, _)
max_of_batch(population, indices, k) ==
    IF k = 1 THEN indices[1]
    ELSE IF max_replaces(population[max_of_batch(population, indices, k - 1) + 1],
                         population[indices[k] + 1])
         THEN indices[k]
         ELSE max_of_batch(population, indices, k - 1)

InitTourn ==
    /\ tourn \in [version : {"operators", "operations"}, size : 1..MaxOpSize]
    /\ \E n \in 0..MaxTournament : tourn_population \in [1..n -> TournamentFitness]
    /\ tourn_result = <<>>
    /\ tourn_batch = <<>>
    /\ tourn_pc = "selecting"
    /\ IdleBut("Tourn")

\* one batch of the iteration: the copy of its maximum joins the result
TournSelect ==
    /\ tourn_pc = "selecting"
    /\ Len(tourn_result) < Len(tourn_population)
    /\ IF choice_raises(Len(tourn_population), tourn.size)
       THEN /\ tourn_pc' = "ValueError"
            /\ UNCHANGED <<tourn_result, tourn_batch>>
       ELSE /\ \E indices \in choice(Len(tourn_population), tourn.size) :
                 /\ tourn_batch' = indices
                 /\ tourn_result' =
                       Append(tourn_result,
                              [pos |-> max_of_batch(tourn_population, indices,
                                                    Len(indices)) + 1,
                               copied |-> TRUE])
            /\ UNCHANGED tourn_pc
    /\ UNCHANGED <<tourn, tourn_population>>
    /\ UNCHANGED notTourn

\* the iteration is over: process returns the new population
TournReturn ==
    /\ tourn_pc = "selecting"
    /\ Len(tourn_result) >= Len(tourn_population)
    /\ tourn_pc' = "returned"
    /\ UNCHANGED <<tourn, tourn_population, tourn_result, tourn_batch>>
    /\ UNCHANGED notTourn

NextTourn == TournSelect \/ TournReturn

SpecTourn == InitTourn /\ [][NextTourn]_vars

\* the individuals other than p whose fitness is lower than or equal to p's
LowerOrEqual(p) ==
    {q \in 1..Len(tourn_population) :
        q # p /\ tourn_population[q] <= tourn_population[p]}

\* member k of the last batch is its first member of maximum fitness
FirstMaximum(k) ==
    \A q \in 1..Len(tourn_batch) :
       /\ tourn_population[tourn_batch[q] + 1] <= tourn_population[tourn_batch[k] + 1]
       /\ q < k => tourn_population[tourn_batch[q] + 1]
                      < tourn_population[tourn_batch[k] + 1]

\* C24: Tournament(size=s).process on N >= s individuals returns exactly N
\* individuals, each a copy of the first maximum-fitness member of a batch
\* of s different individuals; so every returned individual has at least
\* s - 1 others of lower or equal fitness
C24_TournamentWinners ==
    (tourn_pc # "idle" /\ Len(tourn_population) >= tourn.size) =>
       /\ tourn_pc # "ValueError"
       /\ tourn_pc = "returned" => Len(tourn_result) = Len(tourn_population)
       /\ tourn_result # <<>> =>
             /\ Len(tourn_batch) = tourn.size
             /\ \A q, r \in 1..Len(tourn_batch) :
                   q # r => tourn_batch[q] # tourn_batch[r]
             /\ \E k \in 1..Len(tourn_batch) :
                   /\ FirstMaximum(k)
                   /\ tourn_result[Len(tourn_result)] =
                         [pos |-> tourn_batch[k] + 1, copied |-> TRUE]
       /\ \A k \in 1..Len(tourn_result) :
             Cardinality(LowerOrEqual(tourn_result[k].pos)) >= tourn.size - 1

\* a tournament of size 2 over three individuals of different fitness has
\* returned three winners, none of them the only individual of least fitness
C24_Witness ==
    /\ tourn_pc = "returned"
    /\ tourn.size = 2
    /\ tourn_population = <<1, 2, 2>>
    /\ Len(tourn_result) = 3
    /\ \A k \in 1..3 : tourn_result[k].pos # 1

(***************************************************************************)
(* The self-adaptive mutation step size.  The step size of an individual   *)
(* is the element 0 of its array hidden_genes; arrays are objects, so the  *)
(* model keeps the arrays (step_arrays, by their exponent j of alpha^j)    *)
(* apart from the individuals' references to them (step_refs).             *)
(* Versions: NormalDist._process (peal/operations/mutation.py) with        *)
(* Individual.copy of peal/individual.py or of                             *)
(* peal/population/individual.py, and the mutation of                      *)
(* StrategyProcess.start (peal/core/process.py 276-284).                   *)
(***************************************************************************)
StepVersions == {"peal/individual.py", "peal/population/individual.py",
                 "peal/core/process.py"}

\* does the offspring refer to the very array of its parent?
\* peal/individual.py: ind.hidden_genes = self.hidden_genes.copy();
\* peal/population/individual.py: ind._hidden_genes = self._hidden_genes;
\* process.py: offspring[-1].hidden_genes = population[...].hidden_genes
shares_array(version) == version # "peal/individual.py"

\* the step size of individual q, as the exponent of alpha
StepOf(q) == step_arrays[step_refs[q]]

InitStep ==
    /\ step \in StepVersions
    /\ \E n \in 1..2 :
          /\ step_arrays = [k \in 1..n |-> 0]
          /\ step_refs = [k \in 1..n |-> k]
          /\ step_depth = [k \in 1..n |-> 0]
    /\ step_last = None
    /\ step_before = <<>>
    /\ IdleBut("Step")

\* one application of the mutation to individual p: the offspring gets its
\* array (the parent's or a copy of it), and the array is multiplied in
\* place by alpha (d = 1) or by 1/alpha (d = -1)
StepMutate ==
    /\ step # "none"
    /\ Len(step_refs) < MaxStepIndividuals
    /\ \E p \in 1..Len(step_refs), d \in {-1, 1} :
          /\ step_before' = [q \in 1..Len(step_refs) |-> StepOf(q)]
          /\ step_last' = <<[parent |-> p, child |-> Len(step_refs) + 1]>>
          /\ step_depth' = Append(step_depth, step_depth[p] + 1)
          /\ IF shares_array(step)
             THEN /\ step_refs' = Append(step_refs, step_refs[p])
                  /\ step_arrays' = [step_arrays EXCEPT ![step_refs[p]] = @ + d]
             ELSE /\ step_refs' = Append(step_refs, Len(step_arrays) + 1)
                  /\ step_arrays' = Append(step_arrays, StepOf(p) + d)
    /\ UNCHANGED step
    /\ UNCHANGED notStep

NextStep == StepMutate

SpecStep == InitStep /\ [][NextStep]_vars

Abs(j) == IF j < 0 THEN -j ELSE j

\* C25: the step size is private to each individual: an application of the
\* mutation yields an offspring whose step size is the input individual's
\* times alpha or 1/alpha and changes the step size of no other individual,
\* so after k applications along a line of descent the step size is
\* alpha^j with |j| <= k and j congruent to k modulo 2
C25_StepSizePrivate ==
    /\ step_last # None =>
          /\ StepOf(step_last[1].child) - step_before[step_last[1].parent] \in {-1, 1}
          /\ \A q \in 1..Len(step_before) : StepOf(q) = step_before[q]
    /\ \A q \in 1..Len(step_refs) :
          /\ Abs(StepOf(q)) <= step_depth[q]
          /\ (StepOf(q) - step_depth[q]) % 2 = 0

\* with Individual.copy of peal/individual.py the step size is private
PrivateWhenArrayCopied ==
    (step = "peal/individual.py") => C25_StepSizePrivate

\* what holds in every version: the offspring's step size is the parent's
\* former one times alpha or 1/alpha
OffspringStepFromParent ==
    step_last # None =>
       StepOf(step_last[1].child) - step_before[step_last[1].parent] \in {-1, 1}

(***************************************************************************)
(* Fitness and genes of the individuals of a population                    *)
(* (peal/population/individual.py) under gene accesses, fitness            *)
(* assignments, Individual.copy and Fitness.evaluate                       *)
(* (peal/evaluation/fitness.py).  A genome is one of LifeGenomes; a        *)
(* fitness value is [type, of]: the type of the value and the genome it    *)
(* was computed from, <<g>>, or <<>> for the 0.0 of __init__.              *)
(***************************************************************************)
LifeGenomes == {0, 1}

\* Individual.__init__(genes)
NewIndividual(genes) ==
    [_genes |-> genes, _fitness |-> [type |-> "float", of |-> <<>>],
     fitted |-> FALSE]

\* the fitness setter: `fitted` is set, the stored value is tested, the new
\* value is stored unless the test raised
set_fitness(self, fitness) ==
    IF fitness_setter_raises(self)
    THEN [self EXCEPT !.fitted = TRUE]
    ELSE [self EXCEPT !.fitted = TRUE, !._fitness = fitness]

\* Individual.copy
copy_individual(self) == set_fitness(NewIndividual(self._genes), self._fitness)

\* self._method(ind): a float computed from the genes of ind
fitness_method(self) == [type |-> "float", of |-> <<self._genes>>]

\* Fitness.evaluate(population) after the first k individuals; the loop
\* ends at the first individual whose setter raises
RECURSIVE evaluate_loop(_, _)
evaluate_loop(population, k) ==
    IF k = 0 THEN [population |-> population, raised |-> FALSE]
    ELSE LET before == evaluate_loop(population, k - 1)
         IN IF before.raised \/ before.population[k].fitted THEN before
            ELSE [population |->
                      [before.population EXCEPT
                          ![k] = set_fitness(@, fitness_method(@))],
                  raised |-> fitness_setter_raises(before.population[k])]

InitLife ==
    /\ \E genes \in LifeGenomes : life = <<NewIndividual(genes)>>
    /\ life_before = <<>>
    /\ life_last = [op |-> "new", on |-> 1, type |-> "none", raised |-> FALSE]
    /\ life_steps = 0
    /\ IdleBut("Life")

LifeStep(name, target, value_type, raises) ==
    /\ life_before' = life
    /\ life_last' = [op |-> name, on |-> target, type |-> value_type,
                     raised |-> raises]
    /\ life_steps' = life_steps + 1
    /\ UNCHANGED notLife

\* x = individual.genes
LifeReadGenes ==
    /\ life_steps < MaxLifeSteps
    /\ \E i \in 1..Len(life) :
          /\ life' = [life EXCEPT ![i].fitted = FALSE]
          /\ LifeStep("read", i, "none", FALSE)

\* individual.genes = genes (of the same shape)
LifeWriteGenes ==
    /\ life_steps < MaxLifeSteps
    /\ \E i \in 1..Len(life), genes \in LifeGenomes :
          /\ life' = [life EXCEPT ![i].fitted = FALSE, ![i]._genes = genes]
          /\ LifeStep("write", i, "none", FALSE)

\* individual.fitness = value, the value computed from the current genes
LifeAssign ==
    /\ life_steps < MaxLifeSteps
    /\ \E i \in 1..Len(life), type \in {"float", "int"} :
          /\ life' = [life EXCEPT
                        ![i] = set_fitness(@, [type |-> type, of |-> <<@._genes>>])]
          /\ LifeStep("assign", i, type, fitness_setter_raises(life[i]))

\* population.integrate(individual.copy())
LifeCopy ==
    /\ life_steps < MaxLifeSteps
    /\ Len(life) < MaxLifeIndividuals
    /\ \E i \in 1..Len(life) :
          /\ life' = Append(life, copy_individual(life[i]))
          /\ LifeStep("copy", i, "none", FALSE)

\* Fitness.evaluate(population)
LifeEvaluate ==
    /\ life_steps < MaxLifeSteps
    /\ life' = evaluate_loop(life, Len(life)).population
    /\ LifeStep("evaluate", 0, "float", evaluate_loop(life, Len(life)).raised)

NextLife ==
    LifeReadGenes \/ LifeWriteGenes \/ LifeAssign \/ LifeCopy \/ LifeEvaluate

SpecLife == InitLife /\ [][NextLife]_vars

\* the fitness of the individual was computed from its current genes
Fresh(self) == self._fitness.of = <<self._genes>>

\* C26: an individual whose fitted flag is True has a fitness computed from
\* its current genes; in particular the copy of an individual whose genes
\* were changed since its last evaluation is not marked as fitted
C26_FittedMeansFresh ==
    /\ \A i \in 1..Len(life) : life[i].fitted => Fresh(life[i])
    /\ (life_last.op = "copy" /\ ~life_before[life_last.on].fitted) =>
          ~life[Len(life)].fitted

\* what evaluate does achieve: after an evaluation that did not raise,
\* every individual that was not fitted before has a fresh fitness
EvaluateRefreshesUnfitted ==
    (life_last.op = "evaluate" /\ ~life_last.raised) =>
       \A i \in 1..Len(life) :
          ~life_before[i].fitted => (life[i].fitted /\ Fresh(life[i]))

\* C30: an assignment to Individual.fitness raises TypeError exactly when
\* the value assigned is not a float: a float is always stored, whatever
\* was assigned before, and a value that is not a float is rejected and
\* leaves the stored fitness and the fitted flag as they were
C30_SetterRejectsNonFloat ==
    life_last.op = "assign" =>
       /\ life_last.raised <=> life_last.type # "float"
       /\ life_last.type = "float" =>
             life[life_last.on]._fitness =
                [type |-> "float", of |-> <<life[life_last.on]._genes>>]
       /\ life_last.type # "float" =>
             /\ life[life_last.on]._fitness = life_before[life_last.on]._fitness
             /\ life[life_last.on].fitted = life_before[life_last.on].fitted

\* what the setter does: it raises exactly when the fitness stored before
\* the assignment is not a float, stores the new value of whatever type
\* otherwise, and sets the fitted flag in both cases
SetterTestsStoredFitness ==
    life_last.op = "assign" =>
       /\ life_last.raised <=> life_before[life_last.on]._fitness.type # "float"
       /\ life[life_last.on].fitted
       /\ life[life_last.on]._fitness =
             IF life_last.raised
             THEN life_before[life_last.on]._fitness
             ELSE [type |-> life_last.type, of |-> <<life[life_last.on]._genes>>]

(***************************************************************************)
(* Population.integrate (peal/population.py) and Community.integrate       *)
(* (peal/community.py), with the iteration of the container itself by      *)
(* __iter__ / __next__.  An element is [ok, from, pos]: whether it is of    *)
(* the expected element type, and where it was first held.                 *)
(***************************************************************************)
Element(ok, from, pos) == [ok |-> ok, from |-> from, pos |-> pos]

\* the iterables given to integrate: lists of valid and invalid elements
RECURSIVE ItemLists(_)
ItemLists(n) ==
    IF n = 0 THEN {<<>>}
    ELSE {Append(l, Element(ok, "items", n)) :
             l \in ItemLists(n - 1), ok \in BOOLEAN}

InitInteg ==
    /\ integ \in [container : {"Population", "Community"},
                  items : {"single", "iterable", "self"}]
    /\ \E n \in 0..MaxIntegrate :
          integ_container = [k \in 1..n |-> Element(TRUE, "container", k)]
    /\ IF integ.items = "self" THEN integ_items = <<>>
       ELSE IF integ.items = "single" THEN integ_items \in ItemLists(1)
       ELSE integ_items \in UNION {ItemLists(n) : n \in 0..MaxIntegrate}
    /\ integ_before = integ_container
    /\ integ_iter_id = -1
    /\ integ_pc = "ready"
    /\ IdleBut("Integ")

\* the call of integrate: a single element is appended or rejected, an
\* iterable starts to be iterated (iter(self) sets _iter_id = -1)
IntegCall ==
    /\ integ_pc = "ready"
    /\ IF integ.items = "single"
       THEN IF integ_items[1].ok
            THEN /\ integ_container' = Append(integ_container, integ_items[1])
                 /\ integ_pc' = "returned"
            ELSE /\ integ_pc' = "TypeError"
                 /\ UNCHANGED integ_container
       ELSE /\ integ_pc' = "iterating"
            /\ UNCHANGED integ_container
    /\ integ_iter_id' = -1
    /\ UNCHANGED <<integ, integ_items, integ_before>>
    /\ UNCHANGED notInteg

\* one round of the loop over a list: the next element is appended, or
\* TypeError is raised when it is not of the element type
IntegNextItem ==
    /\ integ_pc = "iterating"
    /\ integ.items = "iterable"
    /\ IF integ_iter_id = Len(integ_items) - 1
       THEN /\ integ_pc' = "returned"
            /\ UNCHANGED <<integ_container, integ_iter_id>>
       ELSE /\ integ_iter_id' = integ_iter_id + 1
            /\ IF integ_items[integ_iter_id + 2].ok
               THEN /\ integ_container' =
                          Append(integ_container, integ_items[integ_iter_id + 2])
                    /\ UNCHANGED integ_pc
               ELSE /\ integ_pc' = "TypeError"
                    /\ UNCHANGED integ_container
    /\ UNCHANGED <<integ, integ_items, integ_before>>
    /\ UNCHANGED notInteg

\* one round of the loop over the container itself: __next__ compares
\* _iter_id with the present length of the list that is being appended to
IntegNextOwn ==
    /\ integ_pc = "iterating"
    /\ integ.items = "self"
    /\ IF integ_iter_id = Len(integ_container) - 1
       THEN /\ integ_pc' = "returned"
            /\ UNCHANGED <<integ_container, integ_iter_id>>
       ELSE /\ Len(integ_container) < MaxIntegrateLen
            /\ integ_iter_id' = integ_iter_id + 1
            /\ integ_container' =
                  Append(integ_container, integ_container[integ_iter_id + 2])
            /\ UNCHANGED integ_pc
    /\ UNCHANGED <<integ, integ_items, integ_before>>
    /\ UNCHANGED notInteg

NextInteg == IntegCall \/ IntegNextItem \/ IntegNextOwn

SpecInteg == InitInteg /\ [][NextInteg]_vars

\* C28: a rejected integrate leaves the container unchanged: when it raises
\* TypeError the container holds exactly the elements, in the same order,
\* that it held before the call, also when valid elements precede the
\* invalid one
C28_RejectedIntegrateUnchanged ==
    integ_pc = "TypeError" => integ_container = integ_before

\* what a rejected integrate leaves: the former elements followed by the
\* valid elements that precede the first invalid one
RejectedKeepsValidPrefix ==
    integ_pc = "TypeError" =>
       IF integ.items = "single"
       THEN ~integ_items[1].ok /\ integ_container = integ_before
       ELSE /\ ~integ_items[integ_iter_id + 1].ok
            /\ \A k \in 1..integ_iter_id : integ_items[k].ok
            /\ integ_container =
                  integ_before \o SubSeq(integ_items, 1, integ_iter_id)

\* C29: p.integrate(p) on a container of n >= 1 elements finishes and
\* leaves p with its n former elements followed by the same n elements
\* again: at no time does p hold more than 2n elements
C29_SelfIntegrateDoubles ==
    (integ.items = "self" /\ Len(integ_before) >= 1) =>
       /\ Len(integ_container) <= 2 * Len(integ_before)
       /\ integ_pc = "returned" => integ_container = integ_before \o integ_before

\* what the loop over the container itself does: it returns at once for an
\* empty container and never for another one, each round appending the
\* element at the position it has reached
SelfIntegrateNeverReturns ==
    integ.items = "self" =>
       /\ integ_pc = "returned" => (integ_before = <<>> /\ integ_container = <<>>)
       /\ (integ_pc = "iterating" /\ integ_before # <<>>) =>
             /\ Len(integ_container) = Len(integ_before) + integ_iter_id + 1
             /\ integ_iter_id < Len(integ_container) - 1

\* integrate with a list of elements ends after at most one round per element
ListIntegrateEnds ==
    integ.items = "iterable" =>
       /\ integ_iter_id < Len(integ_items)
       /\ integ_pc = "returned" =>
             (integ_iter_id = Len(integ_items) - 1
                 /\ integ_container = integ_before \o integ_items)

====
